---- MODULE Spec2Model ----
(***************************************************************************)
(* Intent resolution and action dispatch of the Raphael assistant backend. *)
(* Texts are TLA+ strings handled character by character (Len, SubSeq,     *)
(* \o), so keyword probes are real substring searches.                     *)
(***************************************************************************)
EXTENDS Integers, Sequences, FiniteSets, TLC

VARIABLES
    message,      \* the text under construction / handed to the operation
    pieces,       \* number of vocabulary pieces typed into message
    pads,         \* number of padding blocks typed into message
    phase,        \* "typing", "parsed" (parse_math_expression ran), "done",
                  \* "resolved" (a date resolver ran on an extracted date)
    intent_data,  \* result of parse_gemini_intent (action "" before it ran)
    nlu_intent,   \* result of extract_intent_from_response
    calc_expr,    \* the text handed to safe_calculate
    calc,         \* result of safe_calculate (error "-" before it ran)
    fragment,     \* result of perform_calculation
    turn,         \* response of the /chat handler (status 0 before it ran)
    entities,     \* the entity bag handed to validate_entities
    validation,   \* validate_entities' arguments and result (entity_type ""
                  \* before it ran)
    extracted,    \* result of an entity extractor (by "" before one ran)
    request,      \* the body of the request handed to the /chat handler
    records,      \* the list under construction / handed to the operation
    outcome       \* result of another operation (by "" before one ran)

vars == <<message, pieces, pads, phase, intent_data, nlu_intent, calc_expr,
          calc, fragment, turn, entities, validation, extracted, request,
          records, outcome>>

(***************************************************************************)
(* Bounds of the model.                                                    *)
(***************************************************************************)
MaxWords == 2      \* phrases in a classifier message
MaxChars == 4      \* characters in an evaluator expression
MaxPieces == 3     \* pieces after the padding of a guarded expression
MaxPads == 2       \* padding blocks before a guarded expression
PadLen == 50       \* characters in a padding block
MaxItems == 2      \* records a collaborator returns in one turn
MaxMag == 30000    \* largest numerator and denominator tracked exactly
MaxEntities == 3   \* entries of an entity bag handed to validate_entities
MaxRecords == 4    \* memories in the store, messages of a conversation
MaxEvents == 7     \* events in the calendar's answer
MaxPhrases == 4    \* phrases of a message handed to an entity extractor
MaxLength == 3     \* largest max_length handed to format_conversation_history
MaxRequests == 2   \* requests answered by a decorated handler

(***************************************************************************)
(* Strings.                                                                *)
(***************************************************************************)
CharAt(s, i) == SubSeq(s, i, i)

\* Python: k in s
Contains(s, k) ==
    \E i \in 1..(Len(s) - Len(k) + 1) : SubSeq(s, i, i + Len(k) - 1) = k

\* Python: any(keyword in s for keyword in keywords)
AnyIn(keywords, s) == \E k \in keywords : Contains(s, k)

\* re.search(a + '.*' + b, s) for literal a, b (the texts hold no newline)
ContainsThen(s, a, b) ==
    \E i \in 1..(Len(s) - Len(a) + 1) :
        /\ SubSeq(s, i, i + Len(a) - 1) = a
        /\ Contains(SubSeq(s, i + Len(a), Len(s)), b)

UpperLetters == "ABCDEFGHIJKLMNOPQRSTUVWXYZ"
LowerLetters == "abcdefghijklmnopqrstuvwxyz"

\* the lower-case letter of each upper-case letter
LowerOf ==
    [c \in {CharAt(UpperLetters, i) : i \in 1..26} |->
        CharAt(LowerLetters, CHOOSE i \in 1..26 : CharAt(UpperLetters, i) = c)]

LowerChar(c) == IF c \in DOMAIN LowerOf THEN LowerOf[c] ELSE c

\* s[lo..hi] lower-cased (by halves, to keep the recursion shallow)
RECURSIVE LowerRange(_, _, _)
LowerRange(s, lo, hi) ==
    IF lo > hi THEN ""
    ELSE IF lo = hi THEN LowerChar(CharAt(s, lo))
    ELSE LET mid == (lo + hi) \div 2
         IN  LowerRange(s, lo, mid) \o LowerRange(s, mid + 1, hi)

\* Python: s.lower()
Lower(s) == LowerRange(s, 1, Len(s))

IsDigit(c) == c \in {"0", "1", "2", "3", "4", "5", "6", "7", "8", "9"}
IsSpace(c) == c = " "

Least(S) == CHOOSE x \in S : \A y \in S : x <= y
Greatest(S) == CHOOSE x \in S : \A y \in S : x >= y

\* first index >= i of s that holds no whitespace (Len(s)+1 when none)
SkipSpaces(s, i) ==
    Least({j \in i..(Len(s) + 1) : j > Len(s) \/ ~IsSpace(CharAt(s, j))})

\* re.search(r'\d+\s*[+\-*/%]\s*\d+', s): the numeric-operator pattern of the
\* specification's classifier rule 1
NumericPattern(s, operators) ==
    \E i \in 1..Len(s) :
        /\ IsDigit(CharAt(s, i))
        /\ LET j == SkipSpaces(s, i + 1)
               k == SkipSpaces(s, j + 1)
           IN  /\ j <= Len(s)
               /\ CharAt(s, j) \in operators
               /\ k <= Len(s)
               /\ IsDigit(CharAt(s, k))

HasNumericOperatorPattern(s) == NumericPattern(s, {"+", "-", "*", "/", "%"})

(***************************************************************************)
(* services/gemini_service.py: parse_gemini_intent.  Confidences are in    *)
(* tenths (5 = 0.5, 8 = 0.8, 9 = 0.9).                                     *)
(***************************************************************************)
StoreKeywords == {"remember", "my", "i am", "i have", "i like", "my name is"}
RetrieveKeywords ==
    {"what did i tell you", "do you remember", "what do you know about",
     "tell me about"}
CalendarAddKeywords ==
    {"add meeting", "schedule", "appointment", "calendar", "add event",
     "meeting"}
CalendarGetKeywords ==
    {"today", "schedule today", "events today", "what's my schedule"}
CalculateKeywords == {"calculate", "what is", "math"}
OperatorChars == {"+", "-", "*", "/", "="}
HomeworkKeywords == {"homework", "assignment", "due"}
HomeworkAddKeywords == {"add", "new", "have"}
BudgetKeywords == {"budget", "expense", "spent", "money", "cost", "paid"}
ExpenseAddKeywords == {"spent", "paid", "bought", "cost"}
BudgetSetKeywords == {"set budget", "monthly budget"}
TimetableKeywords == {"classes", "timetable", "class schedule"}

\* re.search(r'[\+\-\*\/\=]', user_message)
HasOperatorChar(s) == \E i \in 1..Len(s) : CharAt(s, i) \in OperatorChars

MatchesStore(m) == AnyIn(StoreKeywords, Lower(m))
MatchesRetrieve(m) == AnyIn(RetrieveKeywords, Lower(m))
MatchesCalendarAdd(m) == AnyIn(CalendarAddKeywords, Lower(m))
MatchesCalendarGet(m) == AnyIn(CalendarGetKeywords, Lower(m))
\* a calculate rule that knows the keywords only
MatchesCalculate_keywords_only(m) == AnyIn(CalculateKeywords, Lower(m))

MatchesCalculate(m) == AnyIn(CalculateKeywords, Lower(m)) \/ HasOperatorChar(m)
MatchesHomework(m) == AnyIn(HomeworkKeywords, Lower(m))
MatchesBudget(m) == AnyIn(BudgetKeywords, Lower(m))
MatchesTimetable(m) == AnyIn(TimetableKeywords, Lower(m))

Intent(a, c, r) == [action |-> a, confidence |-> c, response |-> r]

\* the if/elif chain of parse_gemini_intent
intent_chain(user_message, gemini_response_text) ==
    LET message_lower == Lower(user_message)
        r == gemini_response_text
    IN  IF MatchesStore(user_message) THEN Intent("store_memory", 9, r)
        ELSE IF MatchesRetrieve(user_message) THEN Intent("retrieve_memory", 8, r)
        ELSE IF MatchesCalendarAdd(user_message)
             THEN Intent("add_calendar_event", 8, r)
        ELSE IF MatchesCalendarGet(user_message)
             THEN Intent("get_calendar_events", 9, r)
        ELSE IF MatchesCalculate(user_message) THEN Intent("calculate", 9, r)
        ELSE IF MatchesHomework(user_message)
             THEN IF AnyIn(HomeworkAddKeywords, message_lower)
                  THEN Intent("add_homework", 8, r)
                  ELSE Intent("get_homework", 8, r)
        ELSE IF MatchesBudget(user_message)
             THEN IF AnyIn(ExpenseAddKeywords, message_lower)
                  THEN Intent("add_expense", 8, r)
                  ELSE IF AnyIn(BudgetSetKeywords, message_lower)
                       THEN Intent("set_budget", 8, r)
                       ELSE Intent("get_budget", 8, r)
        ELSE IF MatchesTimetable(user_message) THEN Intent("get_timetable", 8, r)
        ELSE Intent("general", 5, r)

\* the chain with the calendar rule tried before the memory rules
parse_gemini_intent_calendar_first(user_message, gemini_response_text) ==
    IF MatchesCalendarAdd(user_message)
    THEN Intent("add_calendar_event", 8, gemini_response_text)
    ELSE intent_chain(user_message, gemini_response_text)

\* the chain with the homework intents under the names add_task, get_tasks
parse_gemini_intent_task_labels(user_message, gemini_response_text) ==
    LET i == intent_chain(user_message, gemini_response_text)
    IN  IF i.action = "add_homework"
        THEN Intent("add_task", i.confidence, i.response)
        ELSE IF i.action = "get_homework"
             THEN Intent("get_tasks", i.confidence, i.response)
             ELSE i

\* the chain with the homework rule leaving the confidence as initialised
parse_gemini_intent_homework_unscored(user_message, gemini_response_text) ==
    LET i == intent_chain(user_message, gemini_response_text)
    IN  IF i.action \in {"add_homework", "get_homework"}
        THEN Intent(i.action, 5, i.response)
        ELSE i

\* the chain giving up (general, 0.5) when the reply reports trouble
parse_gemini_intent_reply_probed(user_message, gemini_response_text) ==
    IF Contains(Lower(gemini_response_text), "trouble")
    THEN Intent("general", 5, gemini_response_text)
    ELSE intent_chain(user_message, gemini_response_text)

\* the chain runs inside try/except; no step of it raises on a string, so
\* the except clause (general, 0.5) is never taken
parse_gemini_intent(user_message, gemini_response_text) ==
    intent_chain(user_message, gemini_response_text)

(***************************************************************************)
(* utils/nlu_parser.py: extract_intent_from_response.  The dict is walked  *)
(* in insertion order, each intent's patterns in list order.               *)
(***************************************************************************)
NluMatch(i, c, p) == [intent |-> i, confidence |-> c, matched_pattern |-> p]

extract_intent_from_response(gemini_response) ==
    LET s == Lower(gemini_response)
        Hit(i, p) == NluMatch(i, 8, p)
    IN  IF Contains(s, "remember") THEN Hit("store_memory", "remember")
        ELSE IF Contains(s, "i'll store") THEN Hit("store_memory", "i'll store")
        ELSE IF Contains(s, "i'll save") THEN Hit("store_memory", "i'll save")
        ELSE IF Contains(s, "storing") THEN Hit("store_memory", "storing")
        ELSE IF Contains(s, "here's what i remember")
             THEN Hit("retrieve_memory", "here's what i remember")
        ELSE IF Contains(s, "i recall") THEN Hit("retrieve_memory", "i recall")
        ELSE IF Contains(s, "you told me")
             THEN Hit("retrieve_memory", "you told me")
        ELSE IF Contains(s, "scheduling")
             THEN Hit("add_calendar_event", "scheduling")
        ELSE IF ContainsThen(s, "i'll add", "event")
             THEN Hit("add_calendar_event", "i'll add.*event")
        ELSE IF ContainsThen(s, "creating", "appointment")
             THEN Hit("add_calendar_event", "creating.*appointment")
        ELSE IF Contains(s, "your schedule")
             THEN Hit("get_calendar_events", "your schedule")
        ELSE IF Contains(s, "events today")
             THEN Hit("get_calendar_events", "events today")
        ELSE IF Contains(s, "calendar shows")
             THEN Hit("get_calendar_events", "calendar shows")
        ELSE IF Contains(s, "the result is") THEN Hit("calculate", "the result is")
        ELSE IF Contains(s, "calculation") THEN Hit("calculate", "calculation")
        ELSE IF Contains(s, "equals") THEN Hit("calculate", "equals")
        ELSE IF Contains(s, "pending homework")
             THEN Hit("get_homework", "pending homework")
        ELSE IF Contains(s, "assignments") THEN Hit("get_homework", "assignments")
        ELSE IF Contains(s, "homework list")
             THEN Hit("get_homework", "homework list")
        ELSE IF ContainsThen(s, "i'll add", "homework")
             THEN Hit("add_homework", "i'll add.*homework")
        ELSE IF ContainsThen(s, "recording", "assignment")
             THEN Hit("add_homework", "recording.*assignment")
        ELSE IF Contains(s, "budget") THEN Hit("get_budget", "budget")
        ELSE IF Contains(s, "expenses") THEN Hit("get_budget", "expenses")
        ELSE IF Contains(s, "spending") THEN Hit("get_budget", "spending")
        ELSE IF ContainsThen(s, "recorded", "expense")
             THEN Hit("add_expense", "recorded.*expense")
        ELSE IF ContainsThen(s, "added", "expense")
             THEN Hit("add_expense", "added.*expense")
        ELSE IF Contains(s, "classes") THEN Hit("get_timetable", "classes")
        ELSE IF Contains(s, "schedule") THEN Hit("get_timetable", "schedule")
        ELSE IF Contains(s, "timetable") THEN Hit("get_timetable", "timetable")
        ELSE NluMatch("general", 5, "")

(***************************************************************************)
(* Python's eval() on a cleaned string.  The whitelist leaves digits,      *)
(* + - * / ( ) . and blanks, so the tokens are numbers, the operators      *)
(* + - * / // **, parentheses and the Ellipsis literal.  A value is        *)
(* [k, n, d]: an exact int or float n/d, an int or float the model does    *)
(* not track ("anyint", "anyfloat": beyond MaxMag, or irrational), the     *)
(* empty tuple, Ellipsis, a complex number, or the exception the           *)
(* evaluation raised.  A float is modelled by the rational it approximates.*)
(* An operation on an untracked operand gives an untracked result.         *)
(***************************************************************************)
Val(k, n, d) == [k |-> k, n |-> n, d |-> d]
Other(k) == Val(k, 0, 1)

IsExact(v) == v.k \in {"int", "float"}
IsUntracked(v) == v.k \in {"anyint", "anyfloat"}
IsReal(v) == IsExact(v) \/ IsUntracked(v)
IsFloatKind(v) == v.k \in {"float", "anyfloat"}
IsRaised(v) == v.k \in {"SyntaxError", "ZeroDivisionError", "TypeError"}
IsZero(v) == IsExact(v) /\ v.n = 0
IsIntegral(v) == IsExact(v) /\ v.d = 1

Abs(x) == IF x < 0 THEN -x ELSE x

RECURSIVE GCD(_, _)
GCD(a, b) == IF b = 0 THEN a ELSE GCD(b, a % b)

\* the number n/d (d > 0) of type int (isFloat = FALSE) or float, in lowest
\* terms; untracked once it leaves the model's range
Number(isFloat, n, d) ==
    LET g == GCD(Abs(n), d)
        nn == n \div g
        dd == d \div g
    IN  IF Abs(nn) > MaxMag \/ dd > MaxMag
        THEN Other(IF isFloat THEN "anyfloat" ELSE "anyint")
        ELSE Val(IF isFloat THEN "float" ELSE "int", nn, dd)

Untracked(l, r) ==
    Other(IF IsFloatKind(l) \/ IsFloatKind(r) THEN "anyfloat" ELSE "anyint")

\* b^e for e >= 0 by squaring; -1 stands for a magnitude beyond MaxMag
\* (b is exact, so |b| <= MaxMag and no product leaves TLC's integers)
RECURSIVE PowCap(_, _)
PowCap(b, e) ==
    IF e = 0 THEN 1
    ELSE IF b = 0 THEN 0
    ELSE IF b = 1 THEN 1
    ELSE LET h == PowCap(b, e \div 2)
         IN  IF h = -1 \/ h * h > MaxMag THEN -1
             ELSE IF e % 2 = 0 THEN h * h
             ELSE IF h * h * b > MaxMag THEN -1 ELSE h * h * b

Negate(v) == IF IsExact(v) THEN Val(v.k, -(v.n), v.d) ELSE v

\* unary + and -
Unary(op, v) ==
    IF IsRaised(v) THEN v
    ELSE IF v.k \in {"tuple", "ellipsis"} THEN Other("TypeError")
    ELSE IF op = "-" THEN Negate(v) ELSE v

AddSub(op, l, r) ==
    IF l.k = "tuple" /\ r.k = "tuple" /\ op = "+" THEN Other("tuple")
    ELSE IF l.k \in {"tuple", "ellipsis"} \/ r.k \in {"tuple", "ellipsis"}
         THEN Other("TypeError")
    ELSE IF l.k = "complex" \/ r.k = "complex" THEN Other("complex")
    ELSE IF IsUntracked(l) \/ IsUntracked(r) THEN Untracked(l, r)
    ELSE Number(IsFloatKind(l) \/ IsFloatKind(r),
                IF op = "+" THEN l.n * r.d + r.n * l.d
                            ELSE l.n * r.d - r.n * l.d,
                l.d * r.d)

Mul(l, r) ==
    IF (l.k = "tuple" /\ r.k \in {"int", "anyint"})
         \/ (r.k = "tuple" /\ l.k \in {"int", "anyint"}) THEN Other("tuple")
    ELSE IF l.k \in {"tuple", "ellipsis"} \/ r.k \in {"tuple", "ellipsis"}
         THEN Other("TypeError")
    ELSE IF l.k = "complex" \/ r.k = "complex" THEN Other("complex")
    ELSE IF IsUntracked(l) \/ IsUntracked(r) THEN Untracked(l, r)
    ELSE Number(IsFloatKind(l) \/ IsFloatKind(r), l.n * r.n, l.d * r.d)

\* true division: always a float
Div(l, r) ==
    IF l.k \in {"tuple", "ellipsis"} \/ r.k \in {"tuple", "ellipsis"}
    THEN Other("TypeError")
    ELSE IF IsZero(r) THEN Other("ZeroDivisionError")
    ELSE IF l.k = "complex" \/ r.k = "complex" THEN Other("complex")
    ELSE IF IsUntracked(l) \/ IsUntracked(r) THEN Other("anyfloat")
    ELSE IF r.n > 0 THEN Number(TRUE, l.n * r.d, l.d * r.n)
                    ELSE Number(TRUE, -(l.n * r.d), l.d * (-(r.n)))

\* floor division: the floor of the quotient, an int for two ints; with a
\* float that is no whole number the binary rounding of the operands decides
\* the floor (10//0.01 is 999.0), so the result is left untracked
FloorDiv(l, r) ==
    IF l.k \in {"tuple", "ellipsis", "complex"}
         \/ r.k \in {"tuple", "ellipsis", "complex"} THEN Other("TypeError")
    ELSE IF IsZero(r) THEN Other("ZeroDivisionError")
    ELSE IF IsUntracked(l) \/ IsUntracked(r) THEN Untracked(l, r)
    ELSE IF l.d # 1 \/ r.d # 1 THEN Other("anyfloat")
    ELSE LET num == IF r.n > 0 THEN l.n * r.d ELSE -(l.n * r.d)
             den == IF r.n > 0 THEN l.d * r.n ELSE l.d * (-(r.n))
         IN  Number(IsFloatKind(l) \/ IsFloatKind(r), num \div den, 1)

\* l ** r
Pow(l, r) ==
    IF l.k \in {"tuple", "ellipsis"} \/ r.k \in {"tuple", "ellipsis"}
    THEN Other("TypeError")
    ELSE IF l.k = "complex" \/ r.k = "complex" THEN Other("complex")
    ELSE IF IsUntracked(l) \/ IsUntracked(r) THEN Untracked(l, r)
    ELSE IF IsIntegral(r) /\ r.n >= 0
         THEN LET pn == PowCap(Abs(l.n), r.n)
                  pd == PowCap(l.d, r.n)
                  neg == l.n < 0 /\ r.n % 2 = 1
              IN  IF pn = -1 \/ pd = -1 THEN Untracked(l, r)
                  ELSE Number(IsFloatKind(l) \/ IsFloatKind(r),
                              IF neg THEN -pn ELSE pn, pd)
    ELSE IF IsZero(l)
         THEN IF r.n < 0 THEN Other("ZeroDivisionError") ELSE Number(TRUE, 0, 1)
    ELSE IF IsIntegral(r)
         THEN LET pn == PowCap(l.d, -(r.n))
                  pd == PowCap(Abs(l.n), -(r.n))
                  neg == l.n < 0 /\ (-(r.n)) % 2 = 1
              IN  IF pn = -1 \/ pd = -1 THEN Other("anyfloat")
                  ELSE Number(TRUE, IF neg THEN -pn ELSE pn, pd)
    ELSE IF l.n < 0 THEN Other("complex")
    ELSE Other("anyfloat")

\* a binary operation on evaluated operands: the left operand's exception
\* was raised first, then the right operand's, then the operation's own
Binary(op, l, r) ==
    IF IsRaised(l) THEN l
    ELSE IF IsRaised(r) THEN r
    ELSE IF op \in {"+", "-"} THEN AddSub(op, l, r)
    ELSE IF op = "*" THEN Mul(l, r)
    ELSE IF op = "/" THEN Div(l, r)
    ELSE IF op = "//" THEN FloorDiv(l, r)
    ELSE Pow(l, r)

\* callee(arg): the callee and the argument are evaluated, then the call
\* fails, no value of this grammar being callable
Call(callee, arg) ==
    IF IsRaised(callee) THEN callee
    ELSE IF IsRaised(arg) THEN arg
    ELSE Other("TypeError")

(***************************************************************************)
(* The tokenizer.  A token is [t, v]: t is "num" (v its value), an         *)
(* operator, a parenthesis, "..." or "bad" (a lone dot, a decimal integer  *)
(* with a leading zero).                                                   *)
(***************************************************************************)
Tok(t) == [t |-> t, v |-> Other("")]
NumTok(v) == [t |-> "num", v |-> v]

DigitValue(c) == CHOOSE n \in 0..9 : CharAt("0123456789", n + 1) = c

\* first index >= i of s that holds no digit
RECURSIVE SkipDigits(_, _)
SkipDigits(s, i) ==
    IF i > Len(s) THEN i
    ELSE IF ~IsDigit(CharAt(s, i)) THEN i
    ELSE SkipDigits(s, i + 1)

\* the value of the digits s[i..j-1] continuing acc, -1 beyond MaxMag
RECURSIVE DigitsValue(_, _, _, _)
DigitsValue(s, i, j, acc) ==
    IF i >= j \/ acc = -1 THEN acc
    ELSE LET a == acc * 10 + DigitValue(CharAt(s, i))
         IN  DigitsValue(s, i + 1, j, IF a > MaxMag THEN -1 ELSE a)

AllZeros(s, i, j) == \A k \in i..(j - 1) : CharAt(s, k) = "0"

\* the number literal s[i..e-1]: integer digits s[i..j-1], then, for a
\* float, a dot and the fraction digits s[j+1..e-1]
NumberToken(s, i, j, e) ==
    IF e = j
    THEN IF j - i > 1 /\ CharAt(s, i) = "0" /\ ~AllZeros(s, i, j)
         THEN Tok("bad")
         ELSE LET n == DigitsValue(s, i, j, 0)
              IN  NumTok(IF n = -1 THEN Other("anyint") ELSE Val("int", n, 1))
    ELSE LET n == DigitsValue(s, j + 1, e, DigitsValue(s, i, j, 0))
             scale == PowCap(10, e - j - 1)
         IN  NumTok(IF n = -1 \/ scale = -1 THEN Other("anyfloat")
                    ELSE Number(TRUE, n, scale))

RECURSIVE Tokenize(_, _)
Tokenize(s, i) ==
    IF i > Len(s) THEN <<>>
    ELSE LET c == CharAt(s, i)
             c2 == IF i < Len(s) THEN CharAt(s, i + 1) ELSE ""
         IN  IF IsSpace(c) THEN Tokenize(s, SkipSpaces(s, i))
             ELSE IF IsDigit(c)
                  THEN LET j == SkipDigits(s, i)
                           e == IF j <= Len(s) /\ CharAt(s, j) = "."
                                THEN SkipDigits(s, j + 1) ELSE j
                       IN  <<NumberToken(s, i, j, e)>> \o Tokenize(s, e)
             ELSE IF c = "." /\ IsDigit(c2)
                  THEN LET e == SkipDigits(s, i + 1)
                       IN  <<NumberToken(s, i, i, e)>> \o Tokenize(s, e)
             ELSE IF c = "." /\ i + 2 <= Len(s) /\ SubSeq(s, i, i + 2) = "..."
                  THEN <<Tok("...")>> \o Tokenize(s, i + 3)
             ELSE IF c = "." THEN <<Tok("bad")>> \o Tokenize(s, i + 1)
             ELSE IF c \in {"*", "/"} /\ c2 = c
                  THEN <<Tok(c \o c)>> \o Tokenize(s, i + 2)
             ELSE IF c \in {"+", "-", "*", "/", "(", ")"}
                  THEN <<Tok(c)>> \o Tokenize(s, i + 1)
             ELSE <<Tok("bad")>> \o Tokenize(s, i + 1)

(***************************************************************************)
(* The parser, evaluating as it goes (operands left to right).  A result   *)
(* is [ok, pos, v]: ok is FALSE for a syntax error, pos the next token.    *)
(***************************************************************************)
Parsed(pos, v) == [ok |-> TRUE, pos |-> pos, v |-> v]
NoParse == [ok |-> FALSE, pos |-> 0, v |-> Other("SyntaxError")]

TokAt(toks, i) == IF i <= Len(toks) THEN toks[i].t ELSE "end"

\* Parse(rule, toks, i, acc): the grammar rule applied at token i; acc is
\* the value parsed so far, for the rules that continue one
\*   arith_expr: term (('+'|'-') term)*
\*   term:       factor (('*'|'/'|'//') factor)*
\*   factor:     ('+'|'-') factor | power
\*   power:      atom_expr ['**' factor]
\*   atom_expr:  atom trailer*
\*   trailer:    '(' [['*'|'**'] arith_expr] ')'
\*   atom:       NUMBER | '...' | '(' [arith_expr] ')'
RECURSIVE Parse(_, _, _, _)
Parse(rule, toks, i, acc) ==
    LET t == TokAt(toks, i)
    IN  CASE rule = "arith_expr" ->
               LET l == Parse("term", toks, i, acc)
               IN  IF l.ok THEN Parse("arith_rest", toks, l.pos, l.v)
                   ELSE NoParse
          [] rule = "arith_rest" ->
               IF t \in {"+", "-"}
               THEN LET r == Parse("term", toks, i + 1, acc)
                    IN  IF r.ok
                        THEN Parse("arith_rest", toks, r.pos,
                                   Binary(t, acc, r.v))
                        ELSE NoParse
               ELSE Parsed(i, acc)
          [] rule = "term" ->
               LET l == Parse("factor", toks, i, acc)
               IN  IF l.ok THEN Parse("term_rest", toks, l.pos, l.v)
                   ELSE NoParse
          [] rule = "term_rest" ->
               IF t \in {"*", "/", "//"}
               THEN LET r == Parse("factor", toks, i + 1, acc)
                    IN  IF r.ok
                        THEN Parse("term_rest", toks, r.pos,
                                   Binary(t, acc, r.v))
                        ELSE NoParse
               ELSE Parsed(i, acc)
          [] rule = "factor" ->
               IF t \in {"+", "-"}
               THEN LET r == Parse("factor", toks, i + 1, acc)
                    IN  IF r.ok THEN Parsed(r.pos, Unary(t, r.v))
                        ELSE NoParse
               ELSE LET l == Parse("atom_expr", toks, i, acc)
                    IN  IF ~l.ok THEN NoParse
                        ELSE IF TokAt(toks, l.pos) = "**"
                             THEN Parse("exponent", toks, l.pos + 1, l.v)
                        ELSE l
          [] rule = "exponent" ->
               LET r == Parse("factor", toks, i, acc)
               IN  IF r.ok THEN Parsed(r.pos, Binary("**", acc, r.v))
                   ELSE NoParse
          [] rule = "atom_expr" ->
               LET a == Parse("atom", toks, i, acc)
               IN  IF a.ok THEN Parse("trailers", toks, a.pos, a.v)
                   ELSE NoParse
          [] rule = "trailers" ->
               IF t # "(" THEN Parsed(i, acc)
               ELSE IF TokAt(toks, i + 1) = ")"
                    THEN Parse("trailers", toks, i + 2, Call(acc, Other("tuple")))
               ELSE LET from == IF TokAt(toks, i + 1) \in {"*", "**"}
                                THEN i + 2 ELSE i + 1
                        arg == Parse("arith_expr", toks, from, acc)
                    IN  IF arg.ok /\ TokAt(toks, arg.pos) = ")"
                        THEN Parse("trailers", toks, arg.pos + 1,
                                   Call(acc, arg.v))
                        ELSE NoParse
          [] rule = "atom" ->
               IF t = "num" THEN Parsed(i + 1, toks[i].v)
               ELSE IF t = "..." THEN Parsed(i + 1, Other("ellipsis"))
               ELSE IF t = "(" /\ TokAt(toks, i + 1) = ")"
                    THEN Parsed(i + 2, Other("tuple"))
               ELSE IF t = "("
                    THEN LET e == Parse("arith_expr", toks, i + 1, acc)
                         IN  IF e.ok /\ TokAt(toks, e.pos) = ")"
                             THEN Parsed(e.pos + 1, e.v)
                             ELSE NoParse
               ELSE NoParse

\* Python: eval(source) for a source over the whitelist; the value, or the
\* exception raised (a syntax error before anything is evaluated)
PyEval(source) ==
    LET toks == Tokenize(source, 1)
        r == Parse("arith_expr", toks, 1, Other(""))
    IN  IF r.ok /\ r.pos = Len(toks) + 1 THEN r.v ELSE Other("SyntaxError")

(***************************************************************************)
(* utils/calculations.py: safe_calculate and parse_math_expression.        *)
(***************************************************************************)
IsMathChar(c) ==
    IsDigit(c) \/ c \in {"+", "-", "*", "/", "(", ")", "."} \/ IsSpace(c)

\* s[lo..hi] without the characters outside the whitelist (by halves)
RECURSIVE CleanRange(_, _, _)
CleanRange(s, lo, hi) ==
    IF lo > hi THEN ""
    ELSE IF lo = hi
         THEN IF IsMathChar(CharAt(s, lo)) THEN CharAt(s, lo) ELSE ""
    ELSE LET mid == (lo + hi) \div 2
         IN  CleanRange(s, lo, mid) \o CleanRange(s, mid + 1, hi)

\* re.sub(r'[^0-9+\-*/().\s]', '', expression)
CleanExpression(expression) == CleanRange(expression, 1, Len(expression))

\* last index <= i of s that holds no whitespace (0 when none)
SkipSpacesBack(s, i) ==
    Greatest({j \in 0..i : j = 0 \/ ~IsSpace(CharAt(s, j))})

\* Python: s.strip()
Strip(s) == SubSeq(s, SkipSpaces(s, 1), SkipSpacesBack(s, Len(s)))

DangerousPatterns == {"__", "import", "exec", "eval", "open", "file"}

\* the exceptions eval() and float() raise here, all subclasses of Exception
ExceptionClasses ==
    {"SyntaxError", "TypeError", "ZeroDivisionError", "OverflowError"}

\* what safe_calculate gives back: (success, result or error message), with
\* whether eval() was reached and the exception that escaped, if any
Calculated(success, error, value, evaluated, escaped) ==
    [success |-> success, error |-> error, value |-> value,
     evaluated |-> evaluated, escaped |-> escaped]

CalcFailure(error, evaluated) ==
    Calculated(FALSE, error, Other(""), evaluated, "")

\* Python: float(result)
Float(v) ==
    IF v.k = "int" THEN Val("float", v.n, v.d)
    ELSE IF v.k = "anyint" THEN Other("anyfloat")
    ELSE v

\* except clauses that report every exception as a calculation error
safe_calculate_except_generic(exc) ==
    IF exc \in ExceptionClasses
    THEN CalcFailure("Calculation error", TRUE)
    ELSE Calculated(FALSE, "", Other(""), TRUE, exc)

\* except clauses without the final "except Exception"
safe_calculate_except_only_zero_division(exc) ==
    IF exc = "ZeroDivisionError"
    THEN CalcFailure("Division by zero is not allowed", TRUE)
    ELSE Calculated(FALSE, "", Other(""), TRUE, exc)

\* the except clauses of safe_calculate
safe_calculate_except(exc) ==
    IF exc = "ZeroDivisionError"
    THEN CalcFailure("Division by zero is not allowed", TRUE)
    ELSE IF exc \in ExceptionClasses
         THEN CalcFailure("Calculation error", TRUE)
         ELSE Calculated(FALSE, "", Other(""), TRUE, exc)

\* too_large: a result the model does not track is too large for a float
\* (eval() or float() raises OverflowError)
safe_calculate_try(clean_expr, too_large) ==
    LET result == PyEval(clean_expr)
    IN  IF IsRaised(result) THEN safe_calculate_except(result.k)
        ELSE IF IsUntracked(result) /\ too_large
             THEN safe_calculate_except("OverflowError")
        ELSE IF IsReal(result)
             THEN Calculated(TRUE, "", Float(result), TRUE, "")
        ELSE CalcFailure("Result is not a number", TRUE)

\* safe_calculate without the scan for dangerous patterns
safe_calculate_unscanned(expression, too_large) ==
    LET clean_expr == CleanExpression(expression)
    IN  IF Len(clean_expr) > 100
        THEN CalcFailure("Expression too complex", FALSE)
        ELSE IF Strip(clean_expr) = ""
             THEN CalcFailure("No valid mathematical expression found", FALSE)
        ELSE safe_calculate_try(clean_expr, too_large)

\* safe_calculate with the length limit on the expression as given
safe_calculate_input_length(expression, too_large) ==
    LET clean_expr == CleanExpression(expression)
    IN  IF Len(expression) > 100
        THEN CalcFailure("Expression too complex", FALSE)
        ELSE IF Strip(clean_expr) = ""
             THEN CalcFailure("No valid mathematical expression found", FALSE)
        ELSE IF AnyIn(DangerousPatterns, Lower(expression))
             THEN CalcFailure("Invalid expression", FALSE)
        ELSE safe_calculate_try(clean_expr, too_large)

safe_calculate(expression, too_large) ==
    LET clean_expr == CleanExpression(expression)
    IN  IF Len(clean_expr) > 100
        THEN CalcFailure("Expression too complex", FALSE)
        ELSE IF Strip(clean_expr) = ""
             THEN CalcFailure("No valid mathematical expression found", FALSE)
        ELSE IF AnyIn(DangerousPatterns, Lower(expression))
             THEN CalcFailure("Invalid expression", FALSE)
        ELSE safe_calculate_try(clean_expr, too_large)

IsLetter(c) == c \in DOMAIN LowerOf \/ c \in {LowerOf[u] : u \in DOMAIN LowerOf}

\* \w of Python's re
IsWordChar(c) == IsLetter(c) \/ IsDigit(c) \/ c = "_"

\* re's \bword\b matches s at i (word starts and ends with a word character)
WordAt(s, word, i) ==
    LET e == i + Len(word)
    IN  /\ e - 1 <= Len(s)
        /\ SubSeq(s, i, e - 1) = word
        /\ (i = 1 \/ ~IsWordChar(CharAt(s, i - 1)))
        /\ (e > Len(s) \/ ~IsWordChar(CharAt(s, e)))

\* the matches are replaced left to right, none overlapping another
RECURSIVE SubWordFrom(_, _, _, _)
SubWordFrom(s, word, replacement, i) ==
    LET at == {j \in i..Len(s) : WordAt(s, word, j)}
    IN  IF at = {} THEN SubSeq(s, i, Len(s))
        ELSE SubSeq(s, i, Least(at) - 1) \o replacement
             \o SubWordFrom(s, word, replacement, Least(at) + Len(word))

\* re.sub(r'\bword\b', replacement, s)
SubWord(s, word, replacement) == SubWordFrom(s, word, replacement, 1)

RECURSIVE SubAll(_, _)
SubAll(s, pairs) ==
    IF pairs = <<>> THEN s
    ELSE SubAll(SubWord(s, Head(pairs)[1], Head(pairs)[2]), Tail(pairs))

RECURSIVE CollapseFrom(_, _)
CollapseFrom(s, i) ==
    LET at == {j \in i..Len(s) : IsSpace(CharAt(s, j))}
    IN  IF at = {} THEN SubSeq(s, i, Len(s))
        ELSE SubSeq(s, i, Least(at) - 1) \o " "
             \o CollapseFrom(s, SkipSpaces(s, Least(at)))

\* re.sub(r'\s+', ' ', s)
CollapseSpaces(s) == CollapseFrom(s, 1)

WordOperators ==
    << <<"plus", "+">>, <<"minus", "-">>, <<"times", "*">>,
       <<"multiplied by", "*">>, <<"divided by", "/">>, <<"over", "/">>,
       <<"percent of", "* 0.01 *">>, <<"squared", "**2">>,
       <<"cubed", "**3">>, <<"to the power of", "**">> >>

WordsToRemove ==
    << <<"what", "">>, <<"is", "">>, <<"the", "">>, <<"result", "">>,
       <<"of", "">>, <<"equals", "">>, <<"equal", "">> >>

parse_math_expression(text) ==
    Strip(CollapseSpaces(SubAll(SubAll(Lower(text), WordOperators),
                                WordsToRemove)))

(***************************************************************************)
(* main.py: perform_calculation.  The fragment is "The result is: " and    *)
(* the value as Python prints it, or the apology.                          *)
(***************************************************************************)
Fragment(kind, v) == [kind |-> kind, v |-> v]
NoFragment == Fragment("", Other(""))

\* the except clause of perform_calculation
perform_calculation_except(exc) ==
    IF exc \in ExceptionClasses \cup {"ValueError"}
    THEN Fragment("apology", Other(""))
    ELSE Fragment("escaped", Other(exc))

\* too_large: a result the model does not track cannot be computed or
\* printed (OverflowError in eval(), ValueError in str() of a huge int)
perform_calculation(expression, too_large) ==
    LET clean_expr == CleanExpression(expression)
        result == PyEval(clean_expr)
    IN  IF IsRaised(result) THEN perform_calculation_except(result.k)
        ELSE IF IsUntracked(result) /\ too_large
             THEN perform_calculation_except("OverflowError")
        ELSE Fragment("result", result)

(***************************************************************************)
(* main.py: the /chat handler.  The collaborators' answers are inputs of   *)
(* the turn: whether the request carries JSON, the user id, whether the    *)
(* generative call, the storage or calendar call of the branch and the     *)
(* speech synthesis succeed, and how many records the branch's query       *)
(* returns.                                                                *)
(***************************************************************************)
ChatStoreKeywords == {"remember", "my", "i am", "i have", "i like"}
ChatRetrieveKeywords ==
    {"what did i tell you", "do you remember", "what do you know about"}
ChatCalendarKeywords == {"add meeting", "schedule", "appointment", "calendar"}
ChatTodayKeywords == {"today", "schedule today", "events today"}
ChatCalculateKeywords == {"calculate", "what is", "+", "-", "*", "/"}
ChatTimetableKeywords == {"classes today", "timetable", "schedule", "class"}
ChatHomeworkKeywords == {"homework", "assignments", "due"}

GeminiReply == "Sure."
GeminiFallback ==
    "I'm having trouble processing your request right now. Please try again."

\* the branch of the handler's if/elif chain
chat_branch(msg) ==
    LET message_lower == Lower(msg)
    IN  IF AnyIn(ChatStoreKeywords, message_lower) THEN "store_memory"
        ELSE IF AnyIn(ChatRetrieveKeywords, message_lower)
             THEN "retrieve_memory"
        ELSE IF AnyIn(ChatCalendarKeywords, message_lower) THEN "calendar"
        ELSE IF AnyIn(ChatTodayKeywords, message_lower) THEN "today"
        ELSE IF AnyIn(ChatCalculateKeywords, message_lower) THEN "calculate"
        ELSE IF AnyIn(ChatTimetableKeywords, message_lower) THEN "timetable"
        ELSE IF AnyIn(ChatHomeworkKeywords, message_lower) THEN "homework"
        ELSE "none"

Items(kind, n) == Fragment(kind, Val("items", n, 1))

\* a turn: the answer of the handler (status, error, response text, audio)
\* with what led to it (the reply, the branch, its fragment, the calls made
\* to collaborators in order, and those of them that failed)
Turn(status, error, reply, branch, frag, calls, audio, response, failed) ==
    [status |-> status, error |-> error, reply |-> reply, branch |-> branch,
     fragment |-> frag, calls |-> calls, audio |-> audio,
     response |-> response, failed |-> failed]

NoTurn == Turn(0, "", "", "", NoFragment, <<>>, FALSE, "", {})

Rejected(status, error) ==
    Turn(status, error, "", "", NoFragment, <<>>, FALSE, "", {})

\* the helpers without their except clause: a failing call raises
collaborator_except_missing(call_failed) ==
    IF call_failed THEN "raised" ELSE "returned"

\* store_memory, retrieve_memories, add_calendar_event, get_todays_events,
\* get_timetable, get_homework_reminders, text_to_speech: the call is made
\* inside try, and except Exception returns the helper's failure value
collaborator_except(call_failed) == "returned"

\* process_with_gemini: the recent memories are read (retrieve_memories
\* answers [] when that fails), then the model is asked; a failure of the
\* model is caught and the fallback text returned
process_with_gemini(gen_ok) == IF gen_ok THEN GeminiReply ELSE GeminiFallback

\* store_memory(user_id, message) and the acknowledgement, given without
\* looking at what store_memory returned
store_memory_fragment_unconditional(stored) ==
    Fragment("remembered", Other(""))

\* if store_memory(user_id, message): response_text += "...remember..."
store_memory_fragment(stored) ==
    IF stored THEN Fragment("remembered", Other("")) ELSE NoFragment

\* the text appended to response_text by the branch, and the collaborator
\* the branch calls
chat_fragment(msg, branch, ok, n, too_large) ==
    LET message_lower == Lower(msg)
    IN  CASE branch = "store_memory" ->
               store_memory_fragment(ok)
          [] branch = "retrieve_memory" ->
               IF ok /\ n > 0 THEN Items("memories", n) ELSE NoFragment
          [] branch = "calendar" ->
               IF Contains(message_lower, "tomorrow")
                    /\ Contains(message_lower, "pm") /\ ok
               THEN Fragment("event_added", Other("")) ELSE NoFragment
          [] branch = "today" ->
               IF ok /\ n > 0 THEN Items("events", n)
               ELSE Fragment("no_events", Other(""))
          [] branch = "calculate" -> perform_calculation(msg, too_large)
          [] branch = "timetable" ->
               IF ok /\ n > 0 THEN Items("classes", n)
               ELSE Fragment("no_classes", Other(""))
          [] branch = "homework" ->
               IF ok /\ n > 0 THEN Items("homework", n)
               ELSE Fragment("no_homework", Other(""))
          [] OTHER -> NoFragment

\* the calls a branch can make, and the synthesis of the audio
BranchCalls ==
    {"memories.set", "memories.query", "calendar.insert", "calendar.list",
     "timetable.get", "homework.query", "tts.synthesize"}

chat_calls(msg, branch) ==
    LET message_lower == Lower(msg)
    IN  CASE branch = "store_memory" -> <<"memories.set">>
          [] branch = "retrieve_memory" -> <<"memories.query">>
          [] branch = "calendar" ->
               IF Contains(message_lower, "tomorrow")
                    /\ Contains(message_lower, "pm")
               THEN <<"calendar.insert">> ELSE <<>>
          [] branch = "today" -> <<"calendar.list">>
          [] branch = "timetable" -> <<"timetable.get">>
          [] branch = "homework" -> <<"homework.query">>
          [] OTHER -> <<>>

\* the texts of the records a collaborator returned, joined
RECURSIVE JoinItems(_, _, _)
JoinItems(item, n, separator) ==
    IF n = 0 THEN ""
    ELSE IF n = 1 THEN item
    ELSE JoinItems(item, n - 1, separator) \o separator \o item

\* the text of a fragment, as the branch writes it after the two newlines
\* (the text of str(result) is one text for each kind of value)
FragmentText(frag) ==
    CASE frag.kind = "remembered" -> "I'll remember that for you!"
      [] frag.kind = "memories" ->
           "Here's what I remember: " \o JoinItems("a memory", frag.v.n, "; ")
      [] frag.kind = "event_added" -> "Event added successfully!"
      [] frag.kind = "events" ->
           "Here are your events today:\n"
               \o JoinItems("- an event at a time", frag.v.n, "\n")
      [] frag.kind = "no_events" -> "You have no events scheduled for today."
      [] frag.kind = "result" -> "The result is: <" \o frag.v.k \o ">"
      [] frag.kind = "apology" ->
           "I couldn't perform that calculation. Please check your expression."
      [] frag.kind = "classes" ->
           "Here are your classes:\n" \o JoinItems("- a class", frag.v.n, "\n")
      [] frag.kind = "no_classes" -> "No classes found for today."
      [] frag.kind = "homework" ->
           "Here's your pending homework:\n"
               \o JoinItems("- a subject: a task (Due: a day)", frag.v.n, "\n")
      [] frag.kind = "no_homework" -> "You have no pending homework!"
      [] OTHER -> ""

\* the response text with the fragment put directly after the reply
response_text_unseparated(reply, frag) == reply \o FragmentText(frag)

\* response_text = process_with_gemini(...); response_text += "\n\n..."
response_text(reply, frag) ==
    IF frag = NoFragment THEN reply
    ELSE reply \o "\n\n" \o FragmentText(frag)

\* the handler with nobody turned away
authenticate_user_anyone(user_id) == TRUE

\* authenticate_user: a user id that is not empty
authenticate_user(user_id) == user_id # ""

\* the end of the handler: the audio and the answer, or the answer of the
\* handler's own except clause when something was raised
chat_return(branch, reply, frag, made, failing, generate_audio) ==
    LET calls == IF generate_audio /\ frag.kind # "escaped"
                 THEN made \o <<"tts.synthesize">> ELSE made
        failed == {calls[k] : k \in 1..Len(calls)} \cap failing
    IN  IF \/ frag.kind = "escaped"
           \/ \E c \in failed \ {"gemini.generate"} :
                 collaborator_except(TRUE) = "raised"
        THEN Turn(500, "Internal server error", "", branch, NoFragment,
                  made, FALSE, "", failed \ {"tts.synthesize"})
        ELSE Turn(200, "", reply, branch, frag, calls,
                  generate_audio /\ "tts.synthesize" \notin failing,
                  response_text(reply, frag), failed)

\* the handler; failing is the set of collaborator calls that fail when
\* they are made
chat(has_json, user_id, msg, failing, n, generate_audio, too_large) ==
    IF ~has_json THEN Rejected(500, "Internal server error")
    ELSE IF ~authenticate_user(user_id)
         THEN Rejected(401, "Authentication failed")
    ELSE IF msg = "" THEN Rejected(400, "Message is required")
    ELSE LET branch == chat_branch(msg)
             acts == chat_calls(msg, branch)
             ok == \A k \in 1..Len(acts) : acts[k] \notin failing
         IN  chat_return(branch,
                         process_with_gemini("gemini.generate" \notin failing),
                         chat_fragment(msg, branch, ok, IF ok THEN n ELSE 0,
                                       too_large),
                         <<"memories.recent", "gemini.generate">> \o acts,
                         failing, generate_audio)

(***************************************************************************)
(* utils/nlu_parser.py: validate_entities.  An entity bag (a dict) is a    *)
(* function from its keys to their values.                                 *)
(***************************************************************************)
EmptyBag == [k \in {} |-> ""]

\* d[key] = value
Put(d, key, value) ==
    [k \in DOMAIN d \cup {key} |-> IF k = key THEN value ELSE d[k]]

Has(d, key) == key \in DOMAIN d

\* the fields appended to missing_fields, in the order of the checks
missing_fields_of(given, entity_type) ==
    CASE entity_type = "event" ->
           (IF ~Has(given, "custom_title") /\ ~Has(given, "event_type")
            THEN <<"title">> ELSE <<>>)
           \o (IF ~Has(given, "time") THEN <<"time">> ELSE <<>>)
      [] entity_type = "homework" ->
           (IF ~Has(given, "subject") THEN <<"subject">> ELSE <<>>)
           \o (IF ~Has(given, "description") /\ ~Has(given, "assignment_type")
               THEN <<"description">> ELSE <<>>)
      [] entity_type = "expense" ->
           IF ~Has(given, "amount") THEN <<"amount">> ELSE <<>>
      [] OTHER -> <<>>

\* defaults that overwrite the entry that is there
corrected_entities_overwritten(copy, given, entity_type) ==
    CASE entity_type = "event" -> Put(copy, "date", "today")
      [] entity_type = "homework" -> Put(copy, "due_date", "next week")
      [] entity_type = "expense" -> Put(copy, "category", "general")
      [] OTHER -> copy

\* the defaults written into the copy
corrected_entities_of(copy, given, entity_type) ==
    CASE entity_type = "event" /\ ~Has(given, "date") ->
           Put(copy, "date", "today")
      [] entity_type = "homework" /\ ~Has(given, "due_date") ->
           Put(copy, "due_date", "next week")
      [] entity_type = "expense" /\ ~Has(given, "category") ->
           Put(copy, "category", "general")
      [] OTHER -> copy

\* a validity flag that ignores the missing fields
is_valid_always(missing_fields) == TRUE

\* is_valid = len(missing_fields) == 0
is_valid_of(missing_fields) == Len(missing_fields) = 0

Validated(is_valid, missing_fields, corrected_entities, given) ==
    [is_valid |-> is_valid, missing_fields |-> missing_fields,
     corrected_entities |-> corrected_entities, entities |-> given]

\* validate_entities writing the defaults into its argument (no copy)
validate_entities_in_place(given, entity_type) ==
    LET missing_fields == missing_fields_of(given, entity_type)
        corrected_entities == corrected_entities_of(given, given, entity_type)
    IN  Validated(is_valid_of(missing_fields), missing_fields,
                  corrected_entities, corrected_entities)

\* the returned tuple, and the caller's dict as the call leaves it
validate_entities(given, entity_type) ==
    LET missing_fields == missing_fields_of(given, entity_type)
        copy == given
        corrected_entities == corrected_entities_of(copy, given, entity_type)
    IN  Validated(is_valid_of(missing_fields), missing_fields,
                  corrected_entities, given)

(***************************************************************************)
(* The expense extractors: extract_expense_details (gemini_service.py) and *)
(* extract_expense_entities (nlu_parser.py; its description entry is left  *)
(* out).  An amount pattern is [prefix, spaces, suffix]: the literal       *)
(* before the group, whether \s+ follows it, and the literal that follows  *)
(* the group after \s*.                                                    *)
(***************************************************************************)
AmountPattern(prefix, spaces, suffix) ==
    [prefix |-> prefix, spaces |-> spaces, suffix |-> suffix]

StartsAt(s, i, k) == i + Len(k) - 1 <= Len(s) /\ SubSeq(s, i, i + Len(k) - 1) = k

\* the end of \d+(?:\.\d{2})? matched greedily at j (a digit)
AmountEnd(s, j) ==
    LET e == SkipDigits(s, j)
    IN  IF /\ e + 2 <= Len(s)
           /\ CharAt(s, e) = "."
           /\ IsDigit(CharAt(s, e + 1))
           /\ IsDigit(CharAt(s, e + 2))
        THEN e + 3 ELSE e

\* group 1 of the match of the pattern that starts at i; "" when there is
\* none (giving digits or the fraction back never makes the rest match)
AmountAt(s, pat, i) ==
    LET p == i + Len(pat.prefix)
        j == IF ~StartsAt(s, i, pat.prefix) THEN 0
             ELSE IF ~pat.spaces THEN p
             ELSE IF p <= Len(s) /\ IsSpace(CharAt(s, p)) THEN SkipSpaces(s, p)
             ELSE 0
    IN  IF j = 0 \/ j > Len(s) THEN ""
        ELSE IF ~IsDigit(CharAt(s, j)) THEN ""
        ELSE LET e == AmountEnd(s, j)
             IN  IF pat.suffix = "" \/ StartsAt(s, SkipSpaces(s, e), pat.suffix)
                 THEN SubSeq(s, j, e - 1) ELSE ""

\* re.search(pattern, s): group 1 of the leftmost match, "" without a match
SearchAmount(s, pat) ==
    LET at == {i \in 1..Len(s) : AmountAt(s, pat, i) # ""}
    IN  IF at = {} THEN "" ELSE AmountAt(s, pat, Least(at))

\* Python: float(text) for digits with an optional two-digit fraction
ToFloat(text) ==
    LET j == SkipDigits(text, 1)
        whole == DigitsValue(text, 1, j, 0)
        n == IF j > Len(text) THEN whole
             ELSE DigitsValue(text, j + 1, Len(text) + 1, whole)
    IN  IF n = -1 THEN Other("anyfloat")
        ELSE Number(TRUE, n, IF j > Len(text) THEN 1 ELSE 100)

\* a loop over the patterns without its break: the last match is kept
extract_amount_last_match(message_text, amount_patterns, key, out) ==
    LET hits == {k \in 1..Len(amount_patterns) :
                    SearchAmount(message_text, amount_patterns[k]) # ""}
    IN  IF hits = {} THEN out
        ELSE Put(out, key,
                 ToFloat(SearchAmount(message_text,
                                      amount_patterns[Greatest(hits)])))

\* for pattern in amount_patterns: ... entities[key] = float(match.group(1));
\* break
extract_amount(message_text, amount_patterns, key, out) ==
    LET hits == {k \in 1..Len(amount_patterns) :
                    SearchAmount(message_text, amount_patterns[k]) # ""}
    IN  IF hits = {} THEN out
        ELSE Put(out, key,
                 ToFloat(SearchAmount(message_text,
                                      amount_patterns[Least(hits)])))

DetailsAmountPatterns ==
    << AmountPattern("$", FALSE, ""), AmountPattern("", FALSE, "dollar"),
       AmountPattern("", FALSE, "buck"), AmountPattern("", FALSE, "") >>

DetailsCategories ==
    << "food", "transportation", "entertainment", "shopping", "groceries",
       "gas", "coffee" >>

extract_expense_details(message_text) ==
    LET with_amount ==
            extract_amount(message_text, DetailsAmountPatterns, "amount", EmptyBag)
        message_lower == Lower(message_text)
        found == {k \in 1..Len(DetailsCategories) :
                     Contains(message_lower, DetailsCategories[k])}
    IN  Put(with_amount, "category",
            IF found = {} THEN "general" ELSE DetailsCategories[Least(found)])

EntitiesAmountPatterns ==
    << AmountPattern("$", FALSE, ""), AmountPattern("", FALSE, "dollar"),
       AmountPattern("", FALSE, "buck"), AmountPattern("spent", TRUE, ""),
       AmountPattern("cost", TRUE, ""), AmountPattern("paid", TRUE, "") >>

EntitiesCategories ==
    << <<"food", {"food", "lunch", "dinner", "breakfast", "restaurant",
                  "coffee", "snack"}>>,
       <<"transportation", {"gas", "fuel", "bus", "taxi", "uber", "lyft",
                            "parking"}>>,
       <<"entertainment", {"movie", "concert", "game", "entertainment",
                           "fun"}>>,
       <<"shopping", {"shopping", "clothes", "shirt", "shoes", "amazon"}>>,
       <<"groceries", {"groceries", "supermarket", "store", "walmart",
                       "target"}>>,
       <<"utilities", {"electricity", "water", "internet", "phone", "bill"}>>,
       <<"health", {"doctor", "medicine", "pharmacy", "health", "medical"}>> >>

extract_expense_entities(message_text) ==
    LET with_amount ==
            extract_amount(message_text, EntitiesAmountPatterns, "amount", EmptyBag)
        message_lower == Lower(message_text)
        found == {k \in 1..Len(EntitiesCategories) :
                     AnyIn(EntitiesCategories[k][2], message_lower)}
    IN  Put(with_amount, "category",
            IF found = {} THEN "general"
            ELSE EntitiesCategories[Least(found)][1])

(***************************************************************************)
(* utils/nlu_parser.py: classify_memory_category and the store_memory      *)
(* branch of extract_entities_from_message.                                *)
(***************************************************************************)
PersonalInfoWords == {"my name", "i am", "i'm called", "call me"}
PreferenceWords == {"i like", "i love", "i prefer", "my favorite"}
GoalWords == {"i want to", "my goal", "i hope", "i plan"}
ImportantDateWords == {"birthday", "anniversary", "important date"}
ContactWords == {"my friend", "my family", "contact", "phone number"}
WorkSchoolWords == {"work", "job", "school", "class", "teacher", "boss"}

\* the chain of ifs from the preferences on
classify_memory_category_rest(text_lower) ==
    IF AnyIn(PreferenceWords, text_lower) THEN "preferences"
    ELSE IF AnyIn(GoalWords, text_lower) THEN "goals"
    ELSE IF AnyIn(ImportantDateWords, text_lower) THEN "important_dates"
    ELSE IF AnyIn(ContactWords, text_lower) THEN "contacts"
    ELSE IF AnyIn(WorkSchoolWords, text_lower) THEN "work_school"
    ELSE "general"

\* the classifier with the important dates probed first
classify_memory_category_dates_first(memory_text) ==
    LET text_lower == Lower(memory_text)
    IN  IF AnyIn(ImportantDateWords, text_lower) THEN "important_dates"
        ELSE IF AnyIn(PersonalInfoWords, text_lower) THEN "personal_info"
        ELSE classify_memory_category_rest(text_lower)

classify_memory_category(memory_text) ==
    LET text_lower == Lower(memory_text)
    IN  IF AnyIn(PersonalInfoWords, text_lower) THEN "personal_info"
        ELSE classify_memory_category_rest(text_lower)

\* extract_entities_from_message(message, 'store_memory')
extract_memory_entities(message_text) ==
    Put(Put(EmptyBag, "memory_text", message_text),
        "category", classify_memory_category(message_text))

(***************************************************************************)
(* services/gemini_service.py: extract_event_details, and                  *)
(* utils/nlu_parser.py: extract_event_entities.  A time pattern is the     *)
(* record of what it requires around the hour: the prefix "at ", the       *)
(* minutes ":MM", and the am/pm suffix ("must", "may" or "no").            *)
(***************************************************************************)
TimePattern(at, minutes, suffix) ==
    [at |-> at, minutes |-> minutes, suffix |-> suffix]

\* (am|pm) after \s* from j on: the suffix, "" when there is none
MeridiemAt(s, j) ==
    LET k == SkipSpaces(s, j)
    IN  IF StartsAt(s, k, "am") THEN "am"
        ELSE IF StartsAt(s, k, "pm") THEN "pm"
        ELSE ""

\* the time of the match of \d{1,2} and the rest of the pattern with n
\* digits at j; "" when there is none
TimeWith(s, pat, j, n) ==
    LET e == j + n
        tail == IF pat.minutes THEN e + 3 ELSE e
    IN  IF \E d \in j..(e - 1) : d > Len(s) \/ ~IsDigit(CharAt(s, d)) THEN ""
        ELSE IF pat.minutes /\ ~(/\ e + 2 <= Len(s)
                                 /\ CharAt(s, e) = ":"
                                 /\ IsDigit(CharAt(s, e + 1))
                                 /\ IsDigit(CharAt(s, e + 2))) THEN ""
        ELSE IF pat.suffix = "no" THEN SubSeq(s, j, tail - 1)
        ELSE IF pat.suffix = "must" /\ MeridiemAt(s, tail) = "" THEN ""
        ELSE SubSeq(s, j, tail - 1) \o MeridiemAt(s, tail)

\* group 1 and group 2 of the match that starts at i, two digits tried
\* before one; "" when there is none
TimeAt(s, pat, i) ==
    LET j == IF pat.at THEN i + 3 ELSE i
    IN  IF pat.at /\ ~StartsAt(s, i, "at ") THEN ""
        ELSE IF TimeWith(s, pat, j, 2) # "" THEN TimeWith(s, pat, j, 2)
        ELSE TimeWith(s, pat, j, 1)

\* re.search(pattern, s): the time of the leftmost match, "" without one
SearchTime(s, pat) ==
    LET starts == {i \in 1..Len(s) : TimeAt(s, pat, i) # ""}
    IN  IF starts = {} THEN "" ELSE TimeAt(s, pat, Least(starts))

\* the loop over the time patterns with the patterns tried in reverse
RECURSIVE extract_time_last_pattern(_, _, _)
extract_time_last_pattern(message_lower, time_patterns, out) ==
    IF time_patterns = <<>> THEN out
    ELSE LET pat == time_patterns[Len(time_patterns)]
             rest == SubSeq(time_patterns, 1, Len(time_patterns) - 1)
         IN  IF SearchTime(message_lower, pat) # ""
             THEN Put(out, "time", SearchTime(message_lower, pat))
             ELSE extract_time_last_pattern(message_lower, rest, out)

\* for pattern in time_patterns: ... entities['time'] = ...; break
RECURSIVE extract_time(_, _, _)
extract_time(message_lower, time_patterns, out) ==
    IF time_patterns = <<>> THEN out
    ELSE IF SearchTime(message_lower, Head(time_patterns)) # ""
    THEN Put(out, "time", SearchTime(message_lower, Head(time_patterns)))
    ELSE extract_time(message_lower, Tail(time_patterns), out)

DetailsTimePatterns ==
    << TimePattern(TRUE, TRUE, "no"),
       TimePattern(TRUE, FALSE, "must"),
       TimePattern(FALSE, TRUE, "may") >>

\* message.split(): the places where a word starts, and the word there
WordStarts(s) ==
    {i \in 1..Len(s) :
        ~IsSpace(CharAt(s, i)) /\ (i = 1 \/ IsSpace(CharAt(s, i - 1)))}

WordFrom(s, i) ==
    SubSeq(s, i, Least({j \in i..Len(s) :
                           j = Len(s) \/ IsSpace(CharAt(s, j + 1))}))

NthWord(s, n) ==
    LET i == CHOOSE x \in WordStarts(s) :
                 Cardinality({y \in WordStarts(s) : y < x}) = n - 1
    IN  WordFrom(s, i)

\* ' '.join(words[1:4]) for more than two words
WordWindow(s) ==
    LET count == Cardinality(WordStarts(s))
    IN  NthWord(s, 2) \o " " \o NthWord(s, 3)
            \o (IF count > 3 THEN " " \o NthWord(s, 4) ELSE "")

extract_event_details(message_text) ==
    LET message_lower == Lower(message_text)
        timed == extract_time(message_lower, DetailsTimePatterns, EmptyBag)
        dated == IF Contains(message_lower, "tomorrow")
                 THEN Put(timed, "date", "tomorrow")
                 ELSE IF Contains(message_lower, "today")
                 THEN Put(timed, "date", "today")
                 ELSE IF Contains(message_lower, "next week")
                 THEN Put(timed, "date", "next_week")
                 ELSE timed
    IN  IF Contains(message_lower, "meeting")
        THEN Put(dated, "title", "Meeting")
        ELSE IF Contains(message_lower, "appointment")
        THEN Put(dated, "title", "Appointment")
        ELSE IF Cardinality(WordStarts(message_text)) > 2
        THEN Put(dated, "title", WordWindow(message_text))
        ELSE dated

EntitiesTimePatterns ==
    DetailsTimePatterns \o << TimePattern(TRUE, FALSE, "no") >>

\* date_patterns in the order of the dictionary: the word and its offset
\* (-1 for None)
DatePatterns ==
    << <<"tomorrow", 1>>, <<"today", 0>>, <<"next week", 7>>,
       <<"monday", -1>>, <<"tuesday", -1>>, <<"wednesday", -1>>,
       <<"thursday", -1>>, <<"friday", -1>>, <<"saturday", -1>>,
       <<"sunday", -1>> >>

EventKeywords ==
    <<"meeting", "appointment", "call", "lunch", "dinner", "conference">>

\* the first element of a sequence of words that occurs in the text, as
\* its index; 0 when none does
FirstIn(words, s) ==
    LET hits == {k \in 1..Len(words) : Contains(s, words[k])}
    IN  IF hits = {} THEN 0 ELSE Least(hits)

\* the first of a set of words that starts at i; "" when none does
WordOf(words, s, i) ==
    IF \E w \in words : StartsAt(s, i, w)
    THEN CHOOSE w \in words : StartsAt(s, i, w) ELSE ""

\* (.+?)(?:\s+at|\s+on|$) from p on: the shortest group
TitleGroup(s, p) ==
    LET ends(e) ==
            \/ e = Len(s)
            \/ /\ IsSpace(CharAt(s, e + 1))
               /\ \/ StartsAt(s, SkipSpaces(s, e + 1), "at")
                  \/ StartsAt(s, SkipSpaces(s, e + 1), "on")
    IN  SubSeq(s, p, Least({e \in p..Len(s) : ends(e)}))

\* \s+(?:about\s+|for\s+|with\s+)?(.+?)(?:\s+at|\s+on|$) from n on: group
\* 1 of the first way to match, <<>> when there is none
TitleAfterNoun(s, n) ==
    LET q == SkipSpaces(s, n)
        word == WordOf({"about", "for", "with"}, s, q)
        w == q + Len(word)
        p == SkipSpaces(s, w)
    IN  IF n > Len(s) \/ ~IsSpace(CharAt(s, n)) THEN <<>>
        ELSE IF word # "" /\ p > w /\ p <= Len(s) THEN <<TitleGroup(s, p)>>
        ELSE IF word # "" /\ p > w + 1 THEN <<" ">>
        ELSE IF q <= Len(s) THEN <<TitleGroup(s, q)>>
        ELSE IF q > n + 1 THEN <<" ">>
        ELSE <<>>

\* the two title patterns: with the verb and the optional article in front
\* of the noun, and with the noun alone
TitleAt(s, with_verb, i) ==
    LET verb == WordOf({"add", "schedule", "create"}, s, i)
        v == i + Len(verb)
        a == SkipSpaces(s, v)
        b == IF StartsAt(s, a, "a") /\ SkipSpaces(s, a + 1) > a + 1
             THEN SkipSpaces(s, a + 1) ELSE a
        at_noun(j) ==
            LET noun == WordOf({"meeting", "appointment", "event"}, s, j)
            IN  IF noun = "" THEN <<>>
                ELSE TitleAfterNoun(s, j + Len(noun))
    IN  IF ~with_verb THEN at_noun(i)
        ELSE IF verb = "" \/ a = v THEN <<>>
        ELSE IF at_noun(b) # <<>> THEN at_noun(b)
        ELSE at_noun(a)

SearchTitle(s, with_verb) ==
    LET starts == {i \in 1..Len(s) : TitleAt(s, with_verb, i) # <<>>}
    IN  IF starts = {} THEN "" ELSE Strip(TitleAt(s, with_verb, Least(starts))[1])

\* the upper-case letter of each lower-case letter
UpperOf ==
    [c \in {LowerOf[u] : u \in DOMAIN LowerOf} |->
        CHOOSE u \in DOMAIN LowerOf : LowerOf[u] = c]

\* str.title() of a lower-case text
RECURSIVE TitleCase(_, _)
TitleCase(s, i) ==
    IF i > Len(s) THEN ""
    ELSE (IF /\ CharAt(s, i) \in DOMAIN UpperOf
             /\ (i = 1 \/ ~IsLetter(CharAt(s, i - 1)))
          THEN UpperOf[CharAt(s, i)] ELSE CharAt(s, i))
         \o TitleCase(s, i + 1)

extract_event_entities(message_text) ==
    LET message_lower == Lower(message_text)
        timed == extract_time(message_lower, EntitiesTimePatterns, EmptyBag)
        d == FirstIn([k \in 1..Len(DatePatterns) |-> DatePatterns[k][1]],
                     message_lower)
        dated == IF d = 0 THEN timed
                 ELSE IF DatePatterns[d][2] = -1
                 THEN Put(timed, "date", DatePatterns[d][1])
                 ELSE Put(Put(timed, "date", DatePatterns[d][1]),
                          "date_offset", DatePatterns[d][2])
        t == FirstIn(EventKeywords, message_lower)
        typed == IF t = 0 THEN dated
                 ELSE Put(dated, "event_type", EventKeywords[t])
        first == SearchTitle(message_lower, TRUE)
        second == SearchTitle(message_lower, FALSE)
    IN  IF Len(first) > 1
        THEN Put(typed, "custom_title", TitleCase(first, 1))
        ELSE IF Len(second) > 1
        THEN Put(typed, "custom_title", TitleCase(second, 1))
        ELSE typed

(***************************************************************************)
(* services/gemini_service.py: extract_homework_details, and               *)
(* utils/nlu_parser.py: extract_homework_entities.                         *)
(***************************************************************************)
DetailsSubjects ==
    <<"math", "science", "english", "history", "physics", "chemistry",
      "biology">>

DescriptionKeywords == <<"homework", "assignment", "due">>

\* Python: s.split(keyword, 1)[1] for a keyword that occurs in s
AfterFirst(s, keyword) ==
    LET i == Least({j \in 1..Len(s) : StartsAt(s, j, keyword)})
    IN  SubSeq(s, i + Len(keyword), Len(s))

extract_homework_details(message_text) ==
    LET message_lower == Lower(message_text)
        s == FirstIn(DetailsSubjects, message_lower)
        subjected == IF s = 0 THEN EmptyBag
                     ELSE Put(EmptyBag, "subject",
                              TitleCase(DetailsSubjects[s], 1))
        dated == IF Contains(message_lower, "tomorrow")
                 THEN Put(subjected, "due_date", "tomorrow")
                 ELSE IF Contains(message_lower, "next week")
                 THEN Put(subjected, "due_date", "next_week")
                 ELSE IF Contains(message_lower, "friday")
                 THEN Put(subjected, "due_date", "friday")
                 ELSE subjected
        k == FirstIn(DescriptionKeywords, message_lower)
    IN  IF k = 0 THEN dated
        ELSE Put(dated, "description",
                 Strip(AfterFirst(message_lower, DescriptionKeywords[k])))

EntitiesSubjects ==
    <<"math", "mathematics", "algebra", "calculus", "science", "physics",
      "chemistry", "biology", "english", "literature", "writing", "history",
      "geography", "social studies", "art", "music", "pe",
      "physical education">>

\* due_patterns in the order of the dictionary: the word and its offset
\* (-1 for None)
DuePatterns ==
    << <<"tomorrow", 1>>, <<"today", 0>>, <<"next week", 7>>,
       <<"friday", -1>>, <<"monday", -1>>, <<"tuesday", -1>>,
       <<"wednesday", -1>>, <<"thursday", -1>>, <<"saturday", -1>>,
       <<"sunday", -1>> >>

AssignmentTypes ==
    <<"homework", "assignment", "project", "essay", "report",
      "presentation">>

\* (.+?)(?:\s+due|\s+for|$) from p on: the shortest group
DescriptionGroup(s, p) ==
    LET ends(e) ==
            \/ e = Len(s)
            \/ /\ IsSpace(CharAt(s, e + 1))
               /\ \/ StartsAt(s, SkipSpaces(s, e + 1), "due")
                  \/ StartsAt(s, SkipSpaces(s, e + 1), "for")
    IN  SubSeq(s, p, Least({e \in p..Len(s) : ends(e)}))

\* \s+(.+?)(?:\s+due|\s+for|$) from n on: group 1 of the first way to
\* match, <<>> when there is none
DescriptionAfter(s, n) ==
    LET q == SkipSpaces(s, n)
    IN  IF n > Len(s) \/ ~IsSpace(CharAt(s, n)) THEN <<>>
        ELSE IF q <= Len(s) THEN <<DescriptionGroup(s, q)>>
        ELSE IF q > n + 1 THEN <<" ">>
        ELSE <<>>

\* re.search of the description pattern of an assignment type
SearchDescription(s, assignment_type) ==
    LET at(i) == IF StartsAt(s, i, assignment_type)
                 THEN DescriptionAfter(s, i + Len(assignment_type))
                 ELSE <<>>
        starts == {i \in 1..Len(s) : at(i) # <<>>}
    IN  IF starts = {} THEN <<>> ELSE at(Least(starts))

extract_homework_entities(message_text) ==
    LET message_lower == Lower(message_text)
        s == FirstIn(EntitiesSubjects, message_lower)
        subjected == IF s = 0 THEN EmptyBag
                     ELSE Put(EmptyBag, "subject",
                              TitleCase(EntitiesSubjects[s], 1))
        d == FirstIn([k \in 1..Len(DuePatterns) |-> DuePatterns[k][1]],
                     message_lower)
        dated == IF d = 0 THEN subjected
                 ELSE IF DuePatterns[d][2] = -1
                 THEN Put(subjected, "due_date", DuePatterns[d][1])
                 ELSE Put(Put(subjected, "due_date", DuePatterns[d][1]),
                          "due_date_offset", DuePatterns[d][2])
        t == FirstIn(AssignmentTypes, message_lower)
        typed == IF t = 0 THEN dated
                 ELSE Put(dated, "assignment_type", AssignmentTypes[t])
        found == IF t = 0 THEN <<>>
                 ELSE SearchDescription(message_lower, AssignmentTypes[t])
    IN  IF found = <<>> THEN typed
        ELSE Put(typed, "description", Strip(found[1]))

(***************************************************************************)
(* services/gemini_service.py: the entities parse_gemini_intent returns,   *)
(* and extract_budget_amount.                                              *)
(***************************************************************************)
BudgetAmountPatterns ==
    << AmountPattern("$", FALSE, ""), AmountPattern("", FALSE, "dollar") >>

extract_budget_amount(message_text) ==
    extract_amount(message_text, BudgetAmountPatterns, "budget_amount",
                   EmptyBag)

QueryPatterns == <<"about", "remember", "know about">>

\* re.search(word + ' (.+)', s): group 1 of the leftmost match, "" without
\* a match
SearchQuery(s, word) ==
    LET head == word \o " "
        at == {i \in 1..Len(s) : StartsAt(s, i, head) /\ i + Len(head) <= Len(s)}
    IN  IF at = {} THEN "" ELSE SubSeq(s, Least(at) + Len(head), Len(s))

extract_query(message_lower) ==
    LET hits == {k \in 1..Len(QueryPatterns) :
                    SearchQuery(message_lower, QueryPatterns[k]) # ""}
    IN  IF hits = {} THEN EmptyBag
        ELSE Put(EmptyBag, "query",
                 SearchQuery(message_lower, QueryPatterns[Least(hits)]))

\* intent_data['entities'] at the return of parse_gemini_intent
intent_entities(user_message, gemini_response_text) ==
    LET action == parse_gemini_intent(user_message, gemini_response_text).action
    IN  IF action = "store_memory"
        THEN Put(EmptyBag, "memory_text", user_message)
        ELSE IF action = "retrieve_memory"
        THEN extract_query(Lower(user_message))
        ELSE IF action = "add_calendar_event"
        THEN extract_event_details(user_message)
        ELSE IF action = "calculate"
        THEN Put(EmptyBag, "expression", user_message)
        ELSE IF action = "add_homework"
        THEN extract_homework_details(user_message)
        ELSE IF action = "add_expense"
        THEN extract_expense_details(user_message)
        ELSE IF action = "set_budget"
        THEN extract_budget_amount(user_message)
        ELSE EmptyBag

(***************************************************************************)
(* services/calendar_service.py: parse_relative_date, and                  *)
(* utils/nlu_parser.py: parse_natural_date.  A date is the number of days  *)
(* from today (at noon); today is given by its weekday, 0 for Monday.      *)
(***************************************************************************)
NoDate == [kind |-> "None", days |-> 0, recognised |-> FALSE]
DateIn(days) == [kind |-> "datetime", days |-> days, recognised |-> TRUE]
DateDefault == [kind |-> "datetime", days |-> 0, recognised |-> FALSE]

parse_relative_date(date_string) ==
    LET text == Strip(Lower(date_string))
    IN  IF text = "today" THEN DateIn(0)
        ELSE IF text = "tomorrow" THEN DateIn(1)
        ELSE IF text = "next week" THEN DateIn(7)
        ELSE IF text = "next month" THEN DateIn(30)
        ELSE DateDefault

WeekdayNames ==
    <<"monday", "tuesday", "wednesday", "thursday", "friday", "saturday",
      "sunday">>

IsWeekday(text) == \E k \in 1..Len(WeekdayNames) : WeekdayNames[k] = text

\* weekdays[date_string]
WeekdayOf(text) ==
    (CHOOSE k \in 1..Len(WeekdayNames) : WeekdayNames[k] = text) - 1

parse_natural_date(date_string, current_weekday) ==
    LET text == Strip(Lower(date_string))
        days_ahead == WeekdayOf(text) - current_weekday
    IN  IF date_string = "" THEN NoDate
        ELSE IF text = "today" THEN DateIn(0)
        ELSE IF text = "tomorrow" THEN DateIn(1)
        ELSE IF text = "yesterday" THEN DateIn(-1)
        ELSE IF text = "next week" THEN DateIn(7)
        ELSE IF text = "last week" THEN DateIn(-7)
        ELSE IF IsWeekday(text)
        THEN DateIn(IF days_ahead <= 0 THEN days_ahead + 7 ELSE days_ahead)
        ELSE NoDate

(***************************************************************************)
(* services/calendar_service.py: parse_time_string, and                    *)
(* utils/nlu_parser.py: parse_natural_time.  Their result is None, a pair  *)
(* (hour, minute), or the exception that was raised.                       *)
(***************************************************************************)
NoTime == [kind |-> "None", hour |-> 0, minute |-> 0]
TimePair(hour, minute) == [kind |-> "pair", hour |-> hour, minute |-> minute]
TimeRaised(exc) == [kind |-> exc, hour |-> 0, minute |-> 0]

\* match.groups() of a matched time: the hour, then the minutes (if the
\* pattern has them), then the am or pm, "" for a group that took no part
TimeGroups(matched, pat) ==
    LET colon == IF CharAt(matched, 2) = ":" THEN 2 ELSE 3
        digits == IF IsDigit(CharAt(matched, Len(matched)))
                  THEN Len(matched) ELSE Len(matched) - 2
    IN  IF pat.minutes
        THEN IF pat.suffix = "no"
             THEN << SubSeq(matched, 1, colon - 1),
                     SubSeq(matched, colon + 1, colon + 2) >>
             ELSE << SubSeq(matched, 1, colon - 1),
                     SubSeq(matched, colon + 1, colon + 2),
                     SubSeq(matched, colon + 3, Len(matched)) >>
        ELSE << SubSeq(matched, 1, digits),
                SubSeq(matched, digits + 1, Len(matched)) >>

\* int(text) of a short text: the number, -1 for int's ValueError
IntOf(text) ==
    IF text = "" \/ \E i \in 1..Len(text) : ~IsDigit(CharAt(text, i)) THEN -1
    ELSE DigitsValue(text, 1, Len(text) + 1, 0)

\* hour = int(group 1); minute = int(group 2) if there is one, else 0;
\* then the am and pm of group 3
TimeOfGroups(groups) ==
    LET hour == IntOf(groups[1])
        minute == IF Len(groups) > 1 /\ groups[2] # ""
                  THEN IntOf(groups[2]) ELSE 0
        half == IF Len(groups) > 2 THEN groups[3] ELSE ""
    IN  IF hour = -1 \/ minute = -1 THEN TimeRaised("ValueError")
        ELSE IF half = "pm" /\ hour # 12 THEN TimePair(hour + 12, minute)
        ELSE IF half = "am" /\ hour = 12 THEN TimePair(0, minute)
        ELSE TimePair(hour, minute)

StringTimePatterns ==
    << TimePattern(FALSE, TRUE, "may"),
       TimePattern(FALSE, FALSE, "must"),
       TimePattern(FALSE, TRUE, "no") >>

\* for pattern in patterns: match = re.match(pattern, time_string) ...
RECURSIVE parse_time_patterns(_, _, _)
parse_time_patterns(time_string, patterns, anchored) ==
    IF patterns = <<>> THEN NoTime
    ELSE LET pat == Head(patterns)
             matched == IF anchored THEN TimeAt(time_string, pat, 1)
                        ELSE SearchTime(time_string, pat)
         IN  IF matched # "" THEN TimeOfGroups(TimeGroups(matched, pat))
             ELSE parse_time_patterns(time_string, Tail(patterns), anchored)

parse_time_string(time_string) ==
    parse_time_patterns(Strip(Lower(time_string)), StringTimePatterns, TRUE)

NamedTimes ==
    [name \in {"morning", "afternoon", "evening", "night", "noon",
               "midnight"} |->
        CASE name = "morning" -> TimePair(9, 0)
          [] name = "afternoon" -> TimePair(14, 0)
          [] name = "evening" -> TimePair(18, 0)
          [] name = "night" -> TimePair(20, 0)
          [] name = "noon" -> TimePair(12, 0)
          [] name = "midnight" -> TimePair(0, 0)]

parse_natural_time(time_string) ==
    LET stripped == Strip(Lower(time_string))
    IN  IF time_string = "" THEN NoTime
        ELSE IF stripped \in DOMAIN NamedTimes THEN NamedTimes[stripped]
        ELSE parse_time_patterns(stripped,
                                 SubSeq(StringTimePatterns, 1, 2), FALSE)

(***************************************************************************)
(* main.py: retrieve_memories and get_todays_events with the branches of   *)
(* the handler that show what they return.  The stored memories are the    *)
(* texts of the documents, the most recent first.                          *)
(***************************************************************************)
Min(a, b) == IF a <= b THEN a ELSE b

\* separator.join(texts)
RECURSIVE Join(_, _)
Join(texts, separator) ==
    IF texts = <<>> THEN ""
    ELSE IF Len(texts) = 1 THEN texts[1]
    ELSE texts[1] \o separator \o Join(Tail(texts), separator)

\* retrieve_memories(user_id, query); ok is false when the storage raises
retrieve_memories(stored, query, ok) ==
    IF ~ok THEN <<>>
    ELSE IF query # ""
    THEN SelectSeq(SubSeq(stored, 1, Min(20, Len(stored))),
                   LAMBDA text : Contains(Lower(text), Lower(query)))
    ELSE SubSeq(stored, 1, Min(5, Len(stored)))

\* memories = retrieve_memories(user_id, message); if memories: ...
retrieve_branch(stored, msg, ok) ==
    LET memories == retrieve_memories(stored, msg, ok)
    IN  [listed |-> memories,
         text |-> IF memories # <<>>
                  THEN "\n\nHere's what I remember: " \o Join(memories, "; ")
                  ELSE ""]

\* get_todays_events(user_id): the events of the calendar's answer, each
\* with its summary and its start; nothing without a service or when the
\* call raises
get_todays_events(items, ok) == IF ok THEN items ELSE <<>>

\* events = get_todays_events(user_id); if events: ... else: ...
today_branch(items, ok) ==
    LET events == get_todays_events(items, ok)
    IN  [listed |-> events,
         text |-> IF events # <<>>
                  THEN "\n\nHere are your events today:\n"
                           \o Join([k \in 1..Len(events) |->
                                       "- " \o events[k] \o " at 9"], "\n")
                  ELSE "\n\nYou have no events scheduled for today."]

(***************************************************************************)
(* The inputs.  Classifier messages are up to MaxWords phrases joined by   *)
(* one blank; evaluator expressions are up to MaxChars characters; guarded *)
(* expressions are up to MaxPads padding blocks followed by up to          *)
(* MaxPieces pieces; chat messages are a prefix, an operand, a connective, *)
(* an operand and a suffix.                                                *)
(***************************************************************************)
ClassifyWords ==
    {"Remember", "tell me about", "schedule", "today", "what is", "2+3",
     "5 % 3", "x = y", "homework", "add", "spent", "budget", "set budget",
     "timetable", "i'll add", "event", "the result is"}

Replies == {GeminiReply, GeminiFallback}

EvalChars == {"0", "2", "+", "-", "*", "/", "(", ")", ".", " "}

RECURSIVE Repeat(_, _)
Repeat(c, n) == IF n = 0 THEN "" ELSE c \o Repeat(c, n - 1)

Pads == {Repeat(" ", PadLen), Repeat("a", PadLen)}

GuardPieces == {"2", "+", "a", " "}

ChatParts ==
    << {"", "What is ", "calculate ", "remember ", "eval "},
       {"", "15", "2", "("},
       {"", "% of ", " percent of ", "+", "/", "//", "**"},
       {"200", "0", ")", "2)"},
       {"", "?"} >>

UserIds == {"", "user-1"}

\* the requests: without a JSON body, or with the fields user_id and
\* generate_audio beside the message
NoJson == [has_json |-> FALSE, user_id |-> "", generate_audio |-> FALSE]
Requests ==
    {NoJson} \cup [has_json : {TRUE}, user_id : UserIds,
                   generate_audio : BOOLEAN]

NoOutcome == [by |-> "", given |-> "", result |-> ""]

NoIntent == Intent("", 0, "")
NoNlu == NluMatch("", 0, "")
NoCalc == CalcFailure("-", FALSE)

\* entity bags hold up to MaxEntities of these keys, each with one of the
\* values
EntityKeys ==
    {"custom_title", "event_type", "time", "date", "subject", "description",
     "assignment_type", "due_date", "amount", "category", "note"}
EntityValues == {"lunch", "general"}
EntityTypes == {"event", "homework", "expense", "memory"}

NoValidation ==
    [entity_type |-> "", given |-> EmptyBag,
     result |-> Validated(FALSE, <<>>, EmptyBag, EmptyBag)]
NoExtract == [by |-> "", entities |-> EmptyBag]

\* the messages of the turns are up to MaxWords of these phrases joined by
\* a blank
TurnPhrases ==
    {"remember", "what do you know about", "schedule", "tomorrow 3pm",
     "today", "2+3", "timetable", "homework"}

\* the store holds up to MaxRecords of these memories, and a query is up to
\* MaxWords of the query phrases joined by a blank
MemoryTexts == {"I like cats", "Cats sleep", "my dog"}
QueryPhrases == {"what do you know about", "cats", "Dog"}

\* the calendar answers with up to MaxEvents events with these summaries
EventSummaries == {"Standup", "Lunch"}

\* time strings are up to MaxPieces of these pieces
TimePieces == {"3", "12", ":30", "pm", "AM", " ", "noon"}

\* memory messages are up to MaxPhrases of these phrases joined by a blank
MemoryPhrases ==
    {"remember", "my birthday is June 5", "My name is Al", "I like tea",
     "I want to", "my friend", "at work"}

\* event messages are up to MaxPhrases of these phrases joined by a blank
EventPhrases ==
    {"schedule a", "meeting", "tomorrow", "at 3pm", "at 4:30", "Lunch today"}

\* expense messages are up to MaxPhrases of these phrases joined by a blank
ExpensePhrases ==
    {"I spent", "$12.50", "on lunch,", "cost 5", "20 dollars", "$7"}

Init ==
    /\ message = ""
    /\ pieces = 0
    /\ pads = 0
    /\ phase = "typing"
    /\ intent_data = NoIntent
    /\ nlu_intent = NoNlu
    /\ calc_expr = ""
    /\ calc = NoCalc
    /\ fragment = NoFragment
    /\ turn = NoTurn
    /\ entities = EmptyBag
    /\ validation = NoValidation
    /\ extracted = NoExtract
    /\ request = NoJson
    /\ records = <<>>
    /\ outcome = NoOutcome

TypeWord ==
    /\ phase = "typing"
    /\ pieces < MaxWords
    /\ \E w \in ClassifyWords :
          message' = IF message = "" THEN w ELSE message \o " " \o w
    /\ pieces' = pieces + 1
    /\ UNCHANGED <<pads, phase, intent_data, nlu_intent, calc_expr, calc,
                   fragment, turn,
                   entities, validation, extracted,
                   request, records, outcome>>

TypeChar ==
    /\ phase = "typing"
    /\ pieces < MaxChars
    /\ \E c \in EvalChars : message' = message \o c
    /\ pieces' = pieces + 1
    /\ UNCHANGED <<pads, phase, intent_data, nlu_intent, calc_expr, calc,
                   fragment, turn,
                   entities, validation, extracted,
                   request, records, outcome>>

TypePad ==
    /\ phase = "typing"
    /\ pieces = 0
    /\ pads < MaxPads
    /\ \E p \in Pads : message' = message \o p
    /\ pads' = pads + 1
    /\ UNCHANGED <<pieces, phase, intent_data, nlu_intent, calc_expr, calc,
                   fragment, turn,
                   entities, validation, extracted,
                   request, records, outcome>>

TypePiece ==
    /\ phase = "typing"
    /\ pieces < MaxPieces
    /\ \E p \in GuardPieces : message' = message \o p
    /\ pieces' = pieces + 1
    /\ UNCHANGED <<pads, phase, intent_data, nlu_intent, calc_expr, calc,
                   fragment, turn,
                   entities, validation, extracted,
                   request, records, outcome>>

TypePart ==
    /\ phase = "typing"
    /\ pieces < Len(ChatParts)
    /\ \E p \in ChatParts[pieces + 1] : message' = message \o p
    /\ pieces' = pieces + 1
    /\ UNCHANGED <<pads, phase, intent_data, nlu_intent, calc_expr, calc,
                   fragment, turn,
                   entities, validation, extracted,
                   request, records, outcome>>

ParseGeminiIntent ==
    /\ phase = "typing"
    /\ \E r \in Replies :
          /\ intent_data' = parse_gemini_intent(message, r)
          /\ extracted' = [by |-> "parse_gemini_intent",
                           entities |-> intent_entities(message, r)]
    /\ phase' = "done"
    /\ UNCHANGED <<message, pieces, pads, nlu_intent, calc_expr, calc,
                   fragment, turn, entities, validation,
                   request, records, outcome>>

ExtractIntentFromResponse ==
    /\ phase = "typing"
    /\ nlu_intent' = extract_intent_from_response(message)
    /\ phase' = "done"
    /\ UNCHANGED <<message, pieces, pads, intent_data, calc_expr, calc,
                   fragment, turn,
                   entities, validation, extracted,
                   request, records, outcome>>

ParseMathExpression ==
    /\ phase = "typing"
    /\ calc_expr' = parse_math_expression(message)
    /\ phase' = "parsed"
    /\ UNCHANGED <<message, pieces, pads, intent_data, nlu_intent, calc,
                   fragment, turn,
                   entities, validation, extracted,
                   request, records, outcome>>

\* safe_calculate on the message, or on what parse_math_expression made of it
SafeCalculate ==
    /\ phase \in {"typing", "parsed"}
    /\ calc_expr' = IF phase = "parsed" THEN calc_expr ELSE message
    /\ \E too_large \in BOOLEAN :
          calc' = safe_calculate(calc_expr', too_large)
    /\ phase' = "done"
    /\ UNCHANGED <<message, pieces, pads, intent_data, nlu_intent, fragment,
                   turn,
                   entities, validation, extracted,
                   request, records, outcome>>

PerformCalculation ==
    /\ phase = "typing"
    /\ \E too_large \in BOOLEAN :
          fragment' = perform_calculation(message, too_large)
    /\ phase' = "done"
    /\ UNCHANGED <<message, pieces, pads, intent_data, nlu_intent, calc_expr,
                   calc, turn,
                   entities, validation, extracted,
                   request, records, outcome>>

Chat ==
    /\ phase = "typing"
    /\ \E gen_ok, ok, too_large \in BOOLEAN :
       \E r \in Requests, n \in 0..MaxItems :
          /\ request' = r
          /\ turn' = chat(r.has_json, r.user_id, message,
                          (IF gen_ok THEN {} ELSE {"gemini.generate"})
                              \cup (IF ok THEN {} ELSE BranchCalls),
                          n, r.generate_audio, too_large)
    /\ phase' = "done"
    /\ UNCHANGED <<message, pieces, pads, intent_data, nlu_intent, calc_expr,
                   calc, fragment, entities, validation, extracted,
                   records, outcome>>

TypeExpensePhrase ==
    /\ phase = "typing"
    /\ pieces < MaxPhrases
    /\ \E w \in ExpensePhrases :
          message' = IF message = "" THEN w ELSE message \o " " \o w
    /\ pieces' = pieces + 1
    /\ UNCHANGED <<pads, phase, intent_data, nlu_intent, calc_expr, calc,
                   fragment, turn, entities, validation, extracted,
                   request, records, outcome>>

ExtractExpenseDetails ==
    /\ phase = "typing"
    /\ extracted' = [by |-> "extract_expense_details",
                     entities |-> extract_expense_details(message)]
    /\ phase' = "done"
    /\ UNCHANGED <<message, pieces, pads, intent_data, nlu_intent, calc_expr,
                   calc, fragment, turn, entities, validation,
                   request, records, outcome>>

ExtractExpenseEntities ==
    /\ phase = "typing"
    /\ extracted' = [by |-> "extract_expense_entities",
                     entities |-> extract_expense_entities(message)]
    /\ phase' = "done"
    /\ UNCHANGED <<message, pieces, pads, intent_data, nlu_intent, calc_expr,
                   calc, fragment, turn, entities, validation,
                   request, records, outcome>>

TypeMemoryPhrase ==
    /\ phase = "typing"
    /\ pieces < MaxPhrases
    /\ \E w \in MemoryPhrases :
          message' = IF message = "" THEN w ELSE message \o " " \o w
    /\ pieces' = pieces + 1
    /\ UNCHANGED <<pads, phase, intent_data, nlu_intent, calc_expr, calc,
                   fragment, turn, entities, validation, extracted,
                   request, records, outcome>>

ExtractMemoryEntities ==
    /\ phase = "typing"
    /\ extracted' = [by |-> "extract_entities_from_message",
                     entities |-> extract_memory_entities(message)]
    /\ phase' = "done"
    /\ UNCHANGED <<message, pieces, pads, intent_data, nlu_intent, calc_expr,
                   calc, fragment, turn, entities, validation,
                   request, records, outcome>>

TypeEventPhrase ==
    /\ phase = "typing"
    /\ pieces < MaxPhrases
    /\ \E w \in EventPhrases :
          message' = IF message = "" THEN w ELSE message \o " " \o w
    /\ pieces' = pieces + 1
    /\ UNCHANGED <<pads, phase, intent_data, nlu_intent, calc_expr, calc,
                   fragment, turn, entities, validation, extracted,
                   request, records, outcome>>

ExtractEventDetails ==
    /\ phase = "typing"
    /\ extracted' = [by |-> "extract_event_details",
                     entities |-> extract_event_details(message)]
    /\ phase' = "done"
    /\ UNCHANGED <<message, pieces, pads, intent_data, nlu_intent, calc_expr,
                   calc, fragment, turn, entities, validation,
                   request, records, outcome>>

ExtractEventEntities ==
    /\ phase = "typing"
    /\ extracted' = [by |-> "extract_event_entities",
                     entities |-> extract_event_entities(message)]
    /\ phase' = "done"
    /\ UNCHANGED <<message, pieces, pads, intent_data, nlu_intent, calc_expr,
                   calc, fragment, turn, entities, validation,
                   request, records, outcome>>

TypeTurnPhrase ==
    /\ phase = "typing"
    /\ pieces < MaxWords
    /\ \E w \in TurnPhrases :
          message' = IF message = "" THEN w ELSE message \o " " \o w
    /\ pieces' = pieces + 1
    /\ UNCHANGED <<pads, phase, intent_data, nlu_intent, calc_expr, calc,
                   fragment, turn, entities, validation, extracted,
                   request, records, outcome>>

\* a turn in which every collaborator call fails or succeeds on its own
ChatTurn ==
    /\ phase = "typing"
    /\ \E too_large \in BOOLEAN :
       \E r \in Requests, n \in 0..MaxItems :
       \E failing \in SUBSET ({"memories.recent", "gemini.generate",
                               "tts.synthesize"}
                              \cup {chat_calls(message, chat_branch(message))[k] :
                                      k \in 1..Len(chat_calls(message,
                                                  chat_branch(message)))}) :
          /\ request' = r
          /\ turn' = chat(r.has_json, r.user_id, message, failing, n,
                          r.generate_audio, too_large)
    /\ phase' = "done"
    /\ UNCHANGED <<message, pieces, pads, intent_data, nlu_intent, calc_expr,
                   calc, fragment, entities, validation, extracted,
                   records, outcome>>

StoreRecord ==
    /\ phase = "typing"
    /\ pieces = 0
    /\ Len(records) < MaxRecords
    /\ \E text \in MemoryTexts : records' = <<text>> \o records
    /\ UNCHANGED <<message, pieces, pads, phase, intent_data, nlu_intent,
                   calc_expr, calc, fragment, turn, entities, validation,
                   extracted, request, outcome>>

TypeQueryPhrase ==
    /\ phase = "typing"
    /\ pieces < MaxWords
    /\ \E w \in QueryPhrases :
          message' = IF message = "" THEN w ELSE message \o " " \o w
    /\ pieces' = pieces + 1
    /\ UNCHANGED <<pads, phase, intent_data, nlu_intent, calc_expr, calc,
                   fragment, turn, entities, validation, extracted,
                   request, records, outcome>>

RetrieveMemories ==
    /\ phase = "typing"
    /\ message # ""
    /\ \E ok \in BOOLEAN :
          outcome' = [by |-> "retrieve_memories", given |-> ok,
                      result |-> retrieve_branch(records, message, ok)]
    /\ phase' = "done"
    /\ UNCHANGED <<message, pieces, pads, intent_data, nlu_intent, calc_expr,
                   calc, fragment, turn, entities, validation, extracted,
                   request, records>>

AddEvent ==
    /\ phase = "typing"
    /\ Len(records) < MaxEvents
    /\ \E summary \in EventSummaries : records' = Append(records, summary)
    /\ UNCHANGED <<message, pieces, pads, phase, intent_data, nlu_intent,
                   calc_expr, calc, fragment, turn, entities, validation,
                   extracted, request, outcome>>

GetTodaysEvents ==
    /\ phase = "typing"
    /\ \E ok \in BOOLEAN :
          outcome' = [by |-> "get_todays_events", given |-> ok,
                      result |-> today_branch(records, ok)]
    /\ phase' = "done"
    /\ UNCHANGED <<message, pieces, pads, intent_data, nlu_intent, calc_expr,
                   calc, fragment, turn, entities, validation, extracted,
                   request, records>>

TypeTimePiece ==
    /\ phase = "typing"
    /\ pieces < MaxPieces
    /\ \E w \in TimePieces : message' = message \o w
    /\ pieces' = pieces + 1
    /\ UNCHANGED <<pads, phase, intent_data, nlu_intent, calc_expr, calc,
                   fragment, turn, entities, validation, extracted,
                   request, records, outcome>>

ParseTimeString ==
    /\ phase = "typing"
    /\ outcome' = [by |-> "parse_time_string", given |-> message,
                   result |-> parse_time_string(message)]
    /\ phase' = "done"
    /\ UNCHANGED <<message, pieces, pads, intent_data, nlu_intent, calc_expr,
                   calc, fragment, turn, entities, validation, extracted,
                   request, records>>

ParseNaturalTime ==
    /\ phase = "typing"
    /\ outcome' = [by |-> "parse_natural_time", given |-> message,
                   result |-> parse_natural_time(message)]
    /\ phase' = "done"
    /\ UNCHANGED <<message, pieces, pads, intent_data, nlu_intent, calc_expr,
                   calc, fragment, turn, entities, validation, extracted,
                   request, records>>

(***************************************************************************)
(* services/gemini_service.py: format_conversation_history.                *)
(***************************************************************************)
Senders == {"user", "raphael", "system"}
Texts == {"a", "b"}

\* Python: messages[-max_length:]  (a start of -0 is the start of the list)
LastOf(messages, max_length) ==
    IF max_length = 0 \/ max_length >= Len(messages)
    THEN messages
    ELSE SubSeq(messages, Len(messages) - max_length + 1, Len(messages))

IsSpeaker(msg) == msg.sender \in {"user", "raphael"}

FormatEntry(msg) ==
    IF msg.sender = "user" THEN "User: " \o msg.text
    ELSE "Raphael: " \o msg.text

format_conversation_history(messages, max_length) ==
    IF messages = <<>> THEN <<>>
    ELSE LET recent_messages ==
                 IF Len(messages) > max_length
                 THEN LastOf(messages, max_length)
                 ELSE messages
             kept == SelectSeq(recent_messages, IsSpeaker)
         IN  [i \in 1..Len(kept) |-> FormatEntry(kept[i])]

AddMessage ==
    /\ phase = "typing"
    /\ Len(records) < MaxRecords
    /\ \E sender \in Senders, text \in Texts :
          records' = Append(records, [sender |-> sender, text |-> text])
    /\ UNCHANGED <<message, pieces, pads, phase, intent_data, nlu_intent,
                   calc_expr, calc, fragment, turn, entities, validation,
                   extracted, request, outcome>>

FormatConversationHistory ==
    /\ phase = "typing"
    /\ \E max_length \in 0..MaxLength :
          outcome' = [by |-> "format_conversation_history",
                      given |-> max_length,
                      result |-> format_conversation_history(records,
                                                             max_length)]
    /\ phase' = "done"
    /\ UNCHANGED <<message, pieces, pads, intent_data, nlu_intent, calc_expr,
                   calc, fragment, turn, entities, validation, extracted,
                   request, records>>

(***************************************************************************)
(* utils/auth_middleware.py: firebase_auth_required.                       *)
(***************************************************************************)
\* the body request.get_json() returns: None, {}, a body without 'idToken',
\* a body with one
Bodies == {"None", "{}", "no idToken", "idToken"}

\* what the decorated handler f does when it is called
HandlerOutcomes ==
    {[raised |-> FALSE, status |-> 200, error |-> ""],
     [raised |-> FALSE, status |-> 500, error |-> "Internal server error"],
     [raised |-> TRUE, status |-> 0, error |-> "RuntimeError"]}

Answer(raised, status, error, invoked) ==
    [raised |-> raised, status |-> status, error |-> error,
     invoked |-> invoked]

\* the except clause of decorated_function
decorated_except(handler, invoked) ==
    Answer(FALSE, 401, "Invalid authentication token", invoked)

decorated_function(body, verifies, handler) ==
    IF body # "idToken"
    THEN Answer(FALSE, 401, "ID token is required", 0)
    ELSE IF ~verifies
    THEN Answer(FALSE, 401, "Invalid authentication token", 0)
    ELSE IF handler.raised
    THEN decorated_except(handler, 1)
    ELSE Answer(FALSE, handler.status, handler.error, 1)

DecoratedFunction ==
    /\ Len(records) < MaxRequests
    /\ \E body \in Bodies, verifies \in BOOLEAN, handler \in HandlerOutcomes :
          LET answer == decorated_function(body, verifies, handler)
          IN  /\ records' = Append(records, [body |-> body,
                                              verifies |-> verifies,
                                              handler |-> handler,
                                              answer |-> answer])
              /\ outcome' = [by |-> "firebase_auth_required",
                             given |-> body, result |-> answer]
    /\ UNCHANGED <<message, pieces, pads, phase, intent_data, nlu_intent,
                   calc_expr, calc, fragment, turn, entities, validation,
                   extracted, request>>

\* date messages are up to MaxWords of these phrases joined by a blank
DatePhrases ==
    {"homework due", "meeting", "tomorrow", "today", "next week", "Friday",
     "monday"}

TypeDatePhrase ==
    /\ phase = "typing"
    /\ pieces < MaxWords
    /\ \E w \in DatePhrases :
          message' = IF message = "" THEN w ELSE message \o " " \o w
    /\ pieces' = pieces + 1
    /\ UNCHANGED <<pads, phase, intent_data, nlu_intent, calc_expr, calc,
                   fragment, turn, entities, validation, extracted,
                   request, records, outcome>>

ExtractHomeworkDetails ==
    /\ phase = "typing"
    /\ extracted' = [by |-> "extract_homework_details",
                     entities |-> extract_homework_details(message)]
    /\ phase' = "done"
    /\ UNCHANGED <<message, pieces, pads, intent_data, nlu_intent, calc_expr,
                   calc, fragment, turn, entities, validation,
                   request, records, outcome>>

ExtractHomeworkEntities ==
    /\ phase = "typing"
    /\ extracted' = [by |-> "extract_homework_entities",
                     entities |-> extract_homework_entities(message)]
    /\ phase' = "done"
    /\ UNCHANGED <<message, pieces, pads, intent_data, nlu_intent, calc_expr,
                   calc, fragment, turn, entities, validation,
                   request, records, outcome>>

\* the key under which an extractor emits its date
DateKey == IF Has(extracted.entities, "date") THEN "date" ELSE "due_date"

ParseRelativeDate ==
    /\ phase = "done"
    /\ extracted.by # ""
    /\ Has(extracted.entities, DateKey)
    /\ LET date_string == extracted.entities[DateKey]
       IN  outcome' = [by |-> "parse_relative_date",
                       given |-> [date_string |-> date_string, weekday |-> 0],
                       result |-> parse_relative_date(date_string)]
    /\ phase' = "resolved"
    /\ UNCHANGED <<message, pieces, pads, intent_data, nlu_intent, calc_expr,
                   calc, fragment, turn, entities, validation, extracted,
                   request, records>>

ParseNaturalDate ==
    /\ phase = "done"
    /\ extracted.by # ""
    /\ Has(extracted.entities, DateKey)
    /\ \E current_weekday \in 0..6 :
          LET date_string == extracted.entities[DateKey]
          IN  outcome' = [by |-> "parse_natural_date",
                          given |-> [date_string |-> date_string,
                                     weekday |-> current_weekday],
                          result |-> parse_natural_date(date_string,
                                                        current_weekday)]
    /\ phase' = "resolved"
    /\ UNCHANGED <<message, pieces, pads, intent_data, nlu_intent, calc_expr,
                   calc, fragment, turn, entities, validation, extracted,
                   request, records>>

AddEntity ==
    /\ phase = "typing"
    /\ Cardinality(DOMAIN entities) < MaxEntities
    /\ \E key \in EntityKeys \ DOMAIN entities, value \in EntityValues :
          entities' = Put(entities, key, value)
    /\ UNCHANGED <<message, pieces, pads, phase, intent_data, nlu_intent,
                   calc_expr, calc, fragment, turn, validation, extracted,
                   request, records, outcome>>

ValidateEntities ==
    /\ phase = "typing"
    /\ \E entity_type \in EntityTypes :
          LET result == validate_entities(entities, entity_type)
          IN  /\ validation' = [entity_type |-> entity_type,
                                 given |-> entities, result |-> result]
              /\ entities' = result.entities
    /\ phase' = "done"
    /\ UNCHANGED <<message, pieces, pads, intent_data, nlu_intent, calc_expr,
                   calc, fragment, turn, extracted,
                   request, records, outcome>>

NextClassify == TypeWord \/ ParseGeminiIntent \/ ExtractIntentFromResponse
NextEval == TypeChar \/ SafeCalculate \/ PerformCalculation
NextGuard == TypePad \/ TypePiece \/ SafeCalculate
NextValidate == AddEntity \/ ValidateEntities
NextExpense ==
    TypeExpensePhrase \/ ExtractExpenseDetails \/ ExtractExpenseEntities
NextMemory == TypeMemoryPhrase \/ ExtractMemoryEntities
NextEvent ==
    \/ TypeEventPhrase
    \/ ParseGeminiIntent
    \/ ExtractEventDetails
    \/ ExtractEventEntities
NextTime == TypeTimePiece \/ ParseTimeString \/ ParseNaturalTime
NextRecall == StoreRecord \/ TypeQueryPhrase \/ RetrieveMemories
NextToday == AddEvent \/ GetTodaysEvents
NextHistory == AddMessage \/ FormatConversationHistory
NextAuth == DecoratedFunction
NextDate ==
    \/ TypeDatePhrase
    \/ ExtractEventDetails
    \/ ExtractEventEntities
    \/ ExtractHomeworkDetails
    \/ ExtractHomeworkEntities
    \/ ParseRelativeDate
    \/ ParseNaturalDate
NextDispatch == TypeTurnPhrase \/ ChatTurn
NextChat == TypePart \/ ParseMathExpression \/ SafeCalculate \/ Chat

SpecClassify == Init /\ [][NextClassify]_vars
SpecEval == Init /\ [][NextEval]_vars
SpecGuard == Init /\ [][NextGuard]_vars
SpecChat == Init /\ [][NextChat]_vars
SpecValidate == Init /\ [][NextValidate]_vars
SpecExpense == Init /\ [][NextExpense]_vars
SpecMemory == Init /\ [][NextMemory]_vars
SpecEvent == Init /\ [][NextEvent]_vars
SpecTime == Init /\ [][NextTime]_vars
SpecRecall == Init /\ [][NextRecall]_vars
SpecToday == Init /\ [][NextToday]_vars
SpecHistory == Init /\ [][NextHistory]_vars
SpecAuth == Init /\ [][NextAuth]_vars
SpecDate == Init /\ [][NextDate]_vars
SpecDispatch == Init /\ [][NextDispatch]_vars

(***************************************************************************)
(* The intent classifier.                                                  *)
(***************************************************************************)
Classified == intent_data.action # ""

MatchedEarlier(m) ==
    MatchesStore(m) \/ MatchesRetrieve(m) \/ MatchesCalendarAdd(m)
        \/ MatchesCalendarGet(m)

\* C1 as stated: every message with a numeric-operator pattern (digits, one
\* of + - * / %, digits) is classified calculate with confidence 0.9,
\* whatever keywords it also holds.
C1_NumericPatternAlwaysCalculate ==
    (Classified /\ HasNumericOperatorPattern(message))
        => (intent_data.action = "calculate" /\ intent_data.confidence = 9)

\* C1 amended: a message with a numeric-operator pattern whose operator is
\* one of + - * / and which matches none of the rules tried earlier (memory
\* store, memory retrieval, calendar add, calendar query) is classified
\* calculate with confidence 0.9, whatever later keywords it holds.
C1_NumericPatternCalculateUnlessEarlierRule ==
    (/\ Classified
     /\ NumericPattern(message, {"+", "-", "*", "/"})
     /\ ~MatchedEarlier(message))
        => (intent_data.action = "calculate" /\ intent_data.confidence = 9)

C1_Witness ==
    /\ Classified
    /\ NumericPattern(message, {"+", "-", "*", "/"})
    /\ MatchesHomework(message)
    /\ intent_data.action = "calculate"

\* the place of an intent in the classifier's fixed order
Rank(action) ==
    CASE action = "store_memory" -> 1
      [] action = "retrieve_memory" -> 2
      [] action = "add_calendar_event" -> 3
      [] action = "get_calendar_events" -> 4
      [] action = "calculate" -> 5
      [] action \in {"add_homework", "get_homework"} -> 6
      [] action \in {"add_expense", "get_budget", "set_budget"} -> 7
      [] action = "get_timetable" -> 8
      [] OTHER -> 9

RuleMatches(m) ==
    << MatchesStore(m), MatchesRetrieve(m), MatchesCalendarAdd(m),
       MatchesCalendarGet(m), MatchesCalculate(m), MatchesHomework(m),
       MatchesBudget(m), MatchesTimetable(m) >>

SpecIntents ==
    {"general", "store_memory", "retrieve_memory", "add_calendar_event",
     "get_calendar_events", "calculate", "add_homework", "get_homework",
     "add_expense", "get_budget"}

\* C3 as stated: the label the classifier returns is one of general,
\* store_memory, retrieve_memory, add_calendar_event, get_calendar_events,
\* calculate, add_task, get_tasks (homework in the code), add_expense,
\* get_budget.
C3_LabelInSpecSet ==
    /\ Classified => intent_data.action \in SpecIntents
    /\ nlu_intent.intent # "" => nlu_intent.intent \in SpecIntents

\* C3 amended: the label is one of those ten or set_budget or get_timetable.
C3_LabelInCodeSet ==
    /\ Classified
          => intent_data.action \in SpecIntents \cup {"set_budget", "get_timetable"}
    /\ nlu_intent.intent # ""
          => nlu_intent.intent \in SpecIntents \cup {"get_timetable"}

C3_Witness == intent_data.action = "set_budget"

NoRuleMatches(m) == LET hit == RuleMatches(m) IN \A i \in 1..8 : ~hit[i]

\* decided by the operator-character probe, the code's numeric-expression
\* detection, and not by a keyword
ByOperatorProbe(m) ==
    /\ ~MatchedEarlier(m)
    /\ HasOperatorChar(m)
    /\ ~AnyIn(CalculateKeywords, Lower(m))

\* C4 as stated: general with 0.5 exactly when no rule matches; a fixed
\* confidence in [0,1] per tier; the numeric-expression tier (0.9) strictly
\* above every keyword tier, every keyword tier strictly above 0.5.
C4_TiersStrictlyOrdered ==
    Classified
        => /\ (intent_data.action = "general") <=> NoRuleMatches(message)
           /\ (intent_data.confidence = 5) <=> NoRuleMatches(message)
           /\ intent_data.confidence \in 0..10
           /\ (~NoRuleMatches(message) /\ ~ByOperatorProbe(message))
                 => (5 < intent_data.confidence /\ intent_data.confidence < 9)
           /\ ByOperatorProbe(message) => intent_data.confidence = 9

\* C4 amended: general with 0.5 exactly when no rule matches; every rule
\* has its fixed confidence, 0.9 for store_memory, get_calendar_events and
\* calculate (by keyword or by operator character), 0.8 for the others, all
\* strictly above the fallback's 0.5; the operator-character probe is not
\* above every keyword rule.
C4_TiersFixedAboveFallback ==
    Classified
        => /\ (intent_data.action = "general") <=> NoRuleMatches(message)
           /\ (intent_data.confidence = 5) <=> NoRuleMatches(message)
           /\ intent_data.confidence =
                 (IF Rank(intent_data.action) \in {1, 4, 5} THEN 9
                  ELSE IF Rank(intent_data.action) = 9 THEN 5 ELSE 8)

C4_Witness ==
    /\ intent_data.action = "store_memory"
    /\ intent_data.confidence = 9
    /\ HasOperatorChar(message)

(***************************************************************************)
(* The calculator.                                                         *)
(***************************************************************************)
Calculating == calc.error # "-"

HasForeignChar(s) == \E i \in 1..Len(s) : ~IsMathChar(CharAt(s, i))

Refused(expression) ==
    \/ Len(CleanExpression(expression)) > 100
    \/ Strip(CleanExpression(expression)) = ""
    \/ AnyIn(DangerousPatterns, Lower(expression))

\* C5 as stated: an input that, after the word-operator substitution, holds
\* a character outside the whitelist (digits, + - * / ( ) . and blanks) is
\* refused: the evaluator fails and evaluates nothing; it never strips the
\* character and computes the rest.
C5_ForeignCharRejected ==
    (/\ Calculating
     /\ HasForeignChar(calc_expr)
     /\ calc_expr = parse_math_expression(message))
        => (~calc.success /\ ~calc.evaluated)

\* C5 amended: characters outside the whitelist are stripped, not refused.
\* safe_calculate fails without evaluating anything only when the stripped
\* text is blank or longer than 100 characters or the input holds one of
\* the patterns __, import, exec, eval, open, file; any other input with
\* such characters is evaluated as its stripped text, and a success is the
\* value of the stripped text.
C5_ForeignCharStripped ==
    (Calculating /\ HasForeignChar(calc_expr))
        => IF Refused(calc_expr)
           THEN ~calc.success /\ ~calc.evaluated
           ELSE /\ calc.evaluated
                /\ calc.success
                      => calc.value = Float(PyEval(CleanExpression(calc_expr)))

C5_Witness ==
    /\ Calculating
    /\ HasForeignChar(calc_expr)
    /\ calc_expr = parse_math_expression(message)
    /\ calc.success

\* built from numbers, parentheses around an expression, unary + and - and
\* the binary + - * / ** only: no floor division, no ellipsis, no empty
\* parentheses, no call
UsesOnlyArithmetic(s) ==
    LET toks == Tokenize(CleanExpression(s), 1)
    IN  \A i \in 1..Len(toks) :
           /\ toks[i].t \notin {"//", "...", "bad"}
           /\ toks[i].t = "("
                 => /\ TokAt(toks, i + 1) # ")"
                    /\ i > 1 => toks[i - 1].t \notin {"num", ")"}

\* C6: the evaluator succeeds only for expressions built from numbers,
\* parentheses, unary + and - and the binary operators + - * / **; any
\* other construct of the whitelisted characters ("()", "//", "1(2)") is a
\* failure and never yields a result fragment.
C6_OnlyArithmeticSucceeds ==
    /\ (Calculating /\ calc.success) => UsesOnlyArithmetic(calc_expr)
    /\ fragment.kind = "result"
          => (UsesOnlyArithmetic(message) /\ IsReal(fragment.v))

\* C7 as stated: every input longer than 100 characters is refused as too
\* complex before it is parsed, whatever its characters.
C7_LongInputRejected ==
    (Calculating /\ Len(calc_expr) > 100)
        => (calc.error = "Expression too complex" /\ ~calc.evaluated)

\* C7 amended: the limit applies to the text left after the characters
\* outside the whitelist are stripped: an input is refused as too complex,
\* before anything is evaluated, exactly when its stripped text is longer
\* than 100 characters.
C7_LongStrippedTextRejected ==
    Calculating
        => /\ (calc.error = "Expression too complex")
                 <=> (Len(CleanExpression(calc_expr)) > 100)
           /\ calc.error = "Expression too complex" => ~calc.evaluated

C7_Witness ==
    /\ Len(CleanExpression(calc_expr)) > 100
    /\ HasForeignChar(calc_expr)
    /\ calc.error = "Expression too complex"

DividesByZero(expression) ==
    PyEval(CleanExpression(expression)).k = "ZeroDivisionError"

\* C8: an expression whose evaluation divides by zero gets the failure
\* "Division by zero is not allowed", which no other failure shares, and no
\* numeric result.
C8_DivisionByZeroDistinct ==
    (Calculating /\ calc.evaluated)
        => /\ DividesByZero(calc_expr)
                 => (~calc.success
                     /\ calc.error = "Division by zero is not allowed")
           /\ calc.error = "Division by zero is not allowed"
                 => DividesByZero(calc_expr)

C8_Witness ==
    /\ calc.evaluated
    /\ DividesByZero(calc_expr)
    /\ calc.error = "Division by zero is not allowed"

\* C9: the evaluator returns a success with a number or a failure with a
\* message and lets no exception escape; every turn that takes the
\* calculate branch is answered with a result or an apology.
C9_NoExceptionEscapes ==
    /\ Calculating
          => /\ calc.escaped = ""
             /\ IF calc.success
                THEN IsFloatKind(calc.value) /\ calc.error = ""
                ELSE calc.error # ""
    /\ (turn.status # 0 /\ turn.branch = "calculate")
          => (turn.status = 200
              /\ turn.fragment.kind \in {"result", "apology"})

C9_Witness ==
    /\ Calculating
    /\ calc.evaluated
    /\ calc.error = "Calculation error"
    /\ calc.escaped = ""

Percentages == {"15", "2"}
Bases == {"200", "0"}

IsPercentOf(v, a, b) ==
    /\ IsExact(v)
    /\ v.n * 100 = PyEval(a).n * PyEval(b).n * v.d

\* C10: for "What is A% of B?" the calculate path yields a fragment that
\* holds the value A*B/100: "What is 15% of 200?" yields 30.
C10_PercentOf ==
    \A a \in Percentages, b \in Bases :
        message = "What is " \o a \o "% of " \o b \o "?"
            => /\ turn.status = 200
                     => (turn.fragment.kind = "result"
                         /\ IsPercentOf(turn.fragment.v, a, b))
               /\ Calculating
                     => (calc.success /\ IsPercentOf(calc.value, a, b))

(***************************************************************************)
(* The entity validator.                                                   *)
(***************************************************************************)
HasValidated == validation.entity_type # ""

\* C11: for every entity bag and every entity type, validate_entities
\* returns valid true if and only if the missing fields it returns are
\* none.
C11_ValidIffNothingMissing ==
    HasValidated
        => (validation.result.is_valid
               <=> validation.result.missing_fields = <<>>)

C11_Witness ==
    /\ HasValidated
    /\ ~validation.result.is_valid
    /\ Len(validation.result.missing_fields) = 2

\* C12: for an expense, the missing fields are ["amount"] and valid is
\* false exactly when the bag has no amount; the corrected bag has category
\* "general" when the bag had no category and the bag's category when it
\* had one; the empty bag gives category "general", ["amount"], false.
C12_ExpenseAmountRequiredCategoryDefaulted ==
    (HasValidated /\ validation.entity_type = "expense")
        => LET bag == validation.given
               r == validation.result
           IN  /\ IF Has(bag, "amount")
                  THEN r.missing_fields = <<>> /\ r.is_valid
                  ELSE r.missing_fields = <<"amount">> /\ ~r.is_valid
               /\ Has(r.corrected_entities, "category")
               /\ r.corrected_entities["category"] =
                     (IF Has(bag, "category") THEN bag["category"]
                      ELSE "general")
               /\ bag = EmptyBag
                     => r.corrected_entities = Put(EmptyBag, "category", "general")

C12_Witness ==
    /\ validation.entity_type = "expense"
    /\ validation.given = EmptyBag
    /\ validation.result.missing_fields = <<"amount">>
    /\ validation.result.corrected_entities["category"] = "general"

\* the optional field of an entity type and its default
DefaultOf(entity_type) ==
    CASE entity_type = "event" -> <<"date", "today">>
      [] entity_type = "homework" -> <<"due_date", "next week">>
      [] entity_type = "expense" -> <<"category", "general">>
      [] OTHER -> <<>>

\* C13: validate_entities leaves its argument as it was, and the corrected
\* bag is the argument plus at most the default of the type's optional
\* field (date "today", due date "next week", category "general"): every
\* entry of the argument is kept with its value, no other key is added, and
\* for the other types the corrected bag equals the argument.
C13_OnlyTheDefaultIsAdded ==
    HasValidated
        => LET bag == validation.given
               r == validation.result
               def == DefaultOf(validation.entity_type)
               added == DOMAIN r.corrected_entities \ DOMAIN bag
           IN  /\ r.entities = bag
               /\ \A k \in DOMAIN bag :
                     Has(r.corrected_entities, k)
                        /\ r.corrected_entities[k] = bag[k]
               /\ IF def = <<>> THEN added = {}
                  ELSE /\ added = {def[1]} \ DOMAIN bag
                       /\ \A k \in added : r.corrected_entities[k] = def[2]

C13_Witness ==
    /\ validation.entity_type = "event"
    /\ ~Has(validation.given, "date")
    /\ Has(validation.given, "note")
    /\ validation.result.missing_fields = <<"title", "time">>
    /\ validation.result.corrected_entities["date"] = "today"
    /\ validation.result.entities = validation.given

(***************************************************************************)
(* The entity extractors.                                                  *)
(***************************************************************************)
ExpenseExtracted ==
    extracted.by \in {"extract_expense_details", "extract_expense_entities"}

PatternsOf(extractor) ==
    IF extractor = "extract_expense_details" THEN DetailsAmountPatterns
    ELSE EntitiesAmountPatterns

\* where a dollar sign is followed by a digit
DollarAmounts(s) ==
    {i \in 1..(Len(s) - 1) : CharAt(s, i) = "$" /\ IsDigit(CharAt(s, i + 1))}

\* the text $N or $N.NN of the first dollar-sign amount, without the sign
FirstDollarAmount(s) ==
    LET i == Least(DollarAmounts(s))
    IN  SubSeq(s, i + 1, AmountEnd(s, i + 1) - 1)

\* C14: for a message with a dollar-sign amount the extracted amount is
\* the first dollar-sign amount, whatever other numbers stand before or
\* after it; in general the amount is the match of the first pattern, in
\* list order, that matches anywhere, and there is no amount when none
\* matches.  "I spent $12.50 on lunch, cost 5" gives 12.50.
C14_FirstPatternDecidesAmount ==
    ExpenseExtracted
        => LET pats == PatternsOf(extracted.by)
               hits == {k \in 1..Len(pats) : SearchAmount(message, pats[k]) # ""}
               out == extracted.entities
           IN  /\ DollarAmounts(message) # {}
                     => (Has(out, "amount")
                         /\ out["amount"] = ToFloat(FirstDollarAmount(message)))
               /\ IF hits = {} THEN ~Has(out, "amount")
                  ELSE /\ Has(out, "amount")
                       /\ out["amount"] =
                             ToFloat(SearchAmount(message, pats[Least(hits)]))
               /\ message = "I spent $12.50 on lunch, cost 5"
                     => out["amount"] = Val("float", 25, 2)

C14_Witness ==
    /\ extracted.by = "extract_expense_entities"
    /\ message = "I spent $12.50 on lunch, cost 5"
    /\ extracted.entities["amount"] = Val("float", 25, 2)

MemoryGroups ==
    << <<"personal_info", PersonalInfoWords>>,
       <<"preferences", PreferenceWords>>,
       <<"goals", GoalWords>>,
       <<"important_dates", ImportantDateWords>>,
       <<"contacts", ContactWords>>,
       <<"work_school", WorkSchoolWords>> >>

\* C15: the category of a store_memory message is that of the first group,
\* in the order personal_info, preferences, goals, important_dates,
\* contacts, work_school, one of whose keywords occurs in the lower-cased
\* message, and general when no group has one; "remember my birthday is
\* June 5" is important_dates.
C15_FirstKeywordGroupDecidesCategory ==
    extracted.by = "extract_entities_from_message"
        => LET text_lower == Lower(message)
               hits == {k \in 1..Len(MemoryGroups) :
                           AnyIn(MemoryGroups[k][2], text_lower)}
               category == extracted.entities["category"]
           IN  /\ category = IF hits = {} THEN "general"
                             ELSE MemoryGroups[Least(hits)][1]
               /\ message = "remember my birthday is June 5"
                     => category = "important_dates"

C15_Witness ==
    /\ extracted.by = "extract_entities_from_message"
    /\ AnyIn(PersonalInfoWords, Lower(message))
    /\ AnyIn(ImportantDateWords, Lower(message))
    /\ extracted.entities["category"] = "personal_info"

(***************************************************************************)
(* The event extractors.                                                   *)
(***************************************************************************)
EventExtracted ==
    extracted.by \in {"extract_event_details", "extract_event_entities"}

\* the times written "at <H>am" or "at <H>pm" in the message
HourTimes ==
    {TimeAt(Lower(message), TimePattern(TRUE, FALSE, "must"), i) :
        i \in 1..Len(message)} \ {""}

MeetingTomorrowAtHour ==
    /\ Contains(Lower(message), "meeting")
    /\ Contains(Lower(message), "tomorrow")
    /\ HourTimes # {}

\* C16: for every message with the word "meeting", the word "tomorrow" and
\* a time written "at <H>am" or "at <H>pm", the add_calendar_event
\* extractor returns exactly the entities date = "tomorrow", time =
\* "<H><am|pm>" and title = "Meeting"; "schedule a meeting tomorrow at 3pm"
\* gives {date: "tomorrow", time: "3pm", title: "Meeting"} and the intent
\* add_calendar_event.
C16_ExactlyDateTimeTitle ==
    /\ (EventExtracted /\ MeetingTomorrowAtHour)
          => /\ DOMAIN extracted.entities = {"date", "time", "title"}
             /\ extracted.entities["date"] = "tomorrow"
             /\ extracted.entities["time"] \in HourTimes
             /\ extracted.entities["title"] = "Meeting"
    /\ (EventExtracted /\ message = "schedule a meeting tomorrow at 3pm")
          => extracted.entities["time"] = "3pm"
    /\ (Classified /\ message = "schedule a meeting tomorrow at 3pm")
          => intent_data.action = "add_calendar_event"

(***************************************************************************)
(* The turns of the chat endpoint.                                         *)
(***************************************************************************)
Completed == turn.status = 200

\* the calls of the dispatcher: those made after the two of the reply,
\* the synthesis of the audio left out
DispatchCalls ==
    SelectSeq(SubSeq(turn.calls, 3, Len(turn.calls)),
              LAMBDA c : c # "tts.synthesize")

\* the collaborator call of each branch that has one
CallOf ==
    [b \in {"store_memory", "retrieve_memory", "calendar", "today",
            "timetable", "homework"} |->
        CASE b = "store_memory" -> "memories.set"
          [] b = "retrieve_memory" -> "memories.query"
          [] b = "calendar" -> "calendar.insert"
          [] b = "today" -> "calendar.list"
          [] b = "timetable" -> "timetable.get"
          [] b = "homework" -> "homework.query"]

\* C17: in every turn whose message selects an action intent the
\* dispatcher makes exactly one call to an external collaborator, the one
\* of that intent, and none of another intent, however many keyword sets
\* the message matches.
C17_ExactlyOneCollaboratorCall ==
    (Completed /\ turn.branch \in DOMAIN CallOf)
        => DispatchCalls = <<CallOf[turn.branch]>>

\* C18: in every completed turn the response text starts with the
\* generative reply unchanged; it is the reply alone exactly when the
\* fragment of the action is empty, and otherwise the reply, the newline
\* separator (two newline characters) and the fragment.
C18_ResponseIsReplyThenFragment ==
    Completed
        => LET n == Len(turn.reply)
               text == FragmentText(turn.fragment)
           IN  /\ turn.reply \in {GeminiReply, GeminiFallback}
               /\ Len(turn.response) >= n
               /\ SubSeq(turn.response, 1, n) = turn.reply
               /\ (turn.response = turn.reply) <=> (turn.fragment = NoFragment)
               /\ turn.fragment # NoFragment
                     => /\ text # ""
                        /\ Len(turn.response) = n + 2 + Len(text)
                        /\ SubSeq(turn.response, n + 1, n + 2) = "\n\n"
                        /\ SubSeq(turn.response, n + 3, Len(turn.response))
                               = text

C18_Witness ==
    /\ Completed
    /\ turn.fragment.kind = "memories"
    /\ turn.reply = GeminiFallback
    /\ turn.response # turn.reply

\* C19: a failure of the storage, the calendar or the generative
\* collaborator never aborts the turn: whichever calls fail, the turn ends
\* with the normal response and a response text, not with the internal
\* error.
C19_CollaboratorFailureNeverAborts ==
    (turn.status # 0 /\ turn.failed # {})
        => /\ turn.status = 200
           /\ turn.error = ""
           /\ turn.response # ""

C19_Witness ==
    /\ Completed
    /\ turn.failed = {"memories.recent", "gemini.generate",
                      "calendar.insert", "tts.synthesize"}

\* C20: in a store_memory turn the acknowledgement is part of the response
\* if and only if the append to the storage succeeded; when it failed the
\* fragment is empty and the response is the generative reply alone.
C20_AcknowledgedIffStored ==
    (Completed /\ turn.branch = "store_memory")
        => LET stored == "memories.set" \notin turn.failed
               acknowledged ==
                   turn.response
                       = turn.reply \o "\n\n" \o "I'll remember that for you!"
           IN  /\ "memories.set" \in {turn.calls[k] : k \in 1..Len(turn.calls)}
               /\ acknowledged <=> stored
               /\ ~stored => (turn.fragment = NoFragment
                              /\ turn.response = turn.reply)

C20_Witness ==
    /\ Completed
    /\ turn.branch = "store_memory"
    /\ "memories.set" \in turn.failed
    /\ turn.response = turn.reply

\* C21: when the calendar collaborator is unavailable during an
\* add_calendar_event turn, the turn completes without error and its
\* response holds a non-empty fragment that tells the user about the
\* calendar.
C21_CalendarUnavailableIsTold ==
    (turn.status # 0 /\ "calendar.insert" \in turn.failed)
        => /\ Completed
           /\ turn.fragment # NoFragment
           /\ turn.response # turn.reply

Answered == turn.status # 0

\* C22 as stated: every request whose message is empty is rejected with
\* the 400 error before the pipeline runs, no collaborator having been
\* called, whatever the other fields of the request are.
C22_EmptyMessageRejected400 ==
    (Answered /\ request.has_json /\ message = "")
        => (turn.status = 400 /\ turn.calls = <<>>)

\* C22: every request with a JSON body and an empty message is rejected
\* before the pipeline runs, no collaborator having been called: with the
\* 401 error when the user id is empty as well, and with the 400 error
\* otherwise; a request without a JSON body gets the 500 error.
C22_EmptyMessageRejectedAfterAuthentication ==
    /\ (Answered /\ request.has_json /\ message = "")
          => /\ turn.status = IF request.user_id = "" THEN 401 ELSE 400
             /\ turn.error = IF request.user_id = ""
                             THEN "Authentication failed"
                             ELSE "Message is required"
             /\ turn.calls = <<>>
             /\ turn.response = ""
    /\ (Answered /\ ~request.has_json)
          => (turn.status = 500 /\ turn.calls = <<>>)

C22_Witness ==
    /\ Answered
    /\ message = ""
    /\ request.user_id = "user-1"
    /\ request.generate_audio
    /\ turn.status = 400

(***************************************************************************)
(* The memories and the events shown.                                      *)
(***************************************************************************)
Recalled == outcome.by = "retrieve_memories"

\* a whitespace-separated token of the query occurs in the text, whatever
\* the case
TokenOccurs(text) ==
    \E i \in WordStarts(message) :
        Contains(Lower(text), Lower(WordFrom(message, i)))

\* C23: in a retrieve_memory turn a stored memory is selected if and only
\* if at least one whitespace-separated token of the query occurs in it,
\* whatever the case; the fragment joins at most 3 selected memories with
\* "; ", and it is empty when none is selected.
C23_TokenMatchUpToThree ==
    (Recalled /\ outcome.given)
        => LET selected == SelectSeq(records, TokenOccurs)
               shown == SubSeq(selected, 1, Min(3, Len(selected)))
           IN  /\ outcome.result.listed = shown
               /\ shown = <<>> => outcome.result.text = ""
               /\ shown # <<>>
                     => outcome.result.text
                            = "\n\nHere's what I remember: "
                                  \o Join(shown, "; ")

Listed == outcome.by = "get_todays_events"

\* C24: in a get_calendar_events turn the fragment lists at most 5 of
\* today's events, the first 5 in the order returned, however many events
\* the calendar returns.
C24_FirstFiveEvents ==
    (Listed /\ outcome.given)
        => outcome.result.listed = SubSeq(records, 1, Min(5, Len(records)))

(***************************************************************************)
(* The resolvers of times and dates.                                       *)
(***************************************************************************)
TimeParsed == outcome.by \in {"parse_time_string", "parse_natural_time"}

\* C25: parse_time_string and parse_natural_time return None or a pair
\* (hour, minute) for every string and never raise; "<H>am" and "<H>pm"
\* without minutes give the hour on the 24-hour clock and minute 0: "3pm"
\* gives (15, 0), "12am" (0, 0) and "12pm" (12, 0).
C25_TimeIsNoneOrPair ==
    TimeParsed
        => /\ outcome.result.kind \in {"None", "pair"}
           /\ message = "3pm" => outcome.result = TimePair(15, 0)
           /\ message = "12AM" => outcome.result = TimePair(0, 0)
           /\ message = "12pm" => outcome.result = TimePair(12, 0)

\* C26: format_conversation_history returns at most max_length entries for
\* every message list and every max_length >= 0: the user and raphael
\* messages among the max_length most recent ones, rendered in their original
\* order, messages of other senders dropped.
Formatted == outcome.by = "format_conversation_history"

MostRecent(messages, n) ==
    SubSeq(messages, Len(messages) - Min(n, Len(messages)) + 1, Len(messages))

C26_AtMostMaxLengthEntries ==
    Formatted =>
        LET kept == SelectSeq(MostRecent(records, outcome.given), IsSpeaker)
        IN  /\ Len(outcome.result) <= outcome.given
            /\ outcome.result = [i \in 1..Len(kept) |-> FormatEntry(kept[i])]

\* C27: a handler decorated with firebase_auth_required answers 401 exactly
\* when the token is missing or fails verification, and then the handler is
\* never invoked; when the token verifies the handler is invoked exactly once
\* and its own outcome (its response, or the failure it raises) is what the
\* caller receives, not a 401.
Verified(r) == r.body = "idToken" /\ r.verifies

C27_Unauthorized401IffTokenRejected ==
    \A i \in 1..Len(records) :
        LET r == records[i]
        IN  /\ (~r.answer.raised /\ r.answer.status = 401) <=> ~Verified(r)
            /\ ~Verified(r) => r.answer.invoked = 0
            /\ Verified(r) =>
                   /\ r.answer.invoked = 1
                   /\ r.answer.raised = r.handler.raised
                   /\ r.answer.status = r.handler.status
                   /\ r.answer.error = r.handler.error

\* C28: every date value the event and homework extractors emit (today,
\* tomorrow, next week / next_week, a weekday name) is recognised by
\* parse_relative_date and by parse_natural_date and resolved to the day it
\* denotes: 0, 1 or 7 days from today, or the next occurrence of the weekday,
\* 1 to 7 days ahead; none falls through to the result for unrecognised
\* input (today by default, or None).
DateResolved == outcome.by \in {"parse_relative_date", "parse_natural_date"}

C28_EmittedDatesAreResolved ==
    DateResolved =>
        LET date_string == outcome.given.date_string
            result == outcome.result
        IN  /\ result.recognised
            /\ result.kind = "datetime"
            /\ date_string = "today" => result.days = 0
            /\ date_string = "tomorrow" => result.days = 1
            /\ date_string \in {"next week", "next_week"} => result.days = 7
            /\ IsWeekday(date_string) =>
                   /\ result.days \in 1..7
                   /\ outcome.by = "parse_natural_date" =>
                          (outcome.given.weekday + result.days) % 7
                              = WeekdayOf(date_string)

\* C29: for every message, the action branch the chat endpoint's keyword
\* chain takes is the branch of the intent parse_gemini_intent assigns to the
\* same message: the same domain, and no action when the classifier says
\* general.
BranchOfIntent(action) ==
    IF action = "store_memory" THEN {"store_memory"}
    ELSE IF action = "retrieve_memory" THEN {"retrieve_memory"}
    ELSE IF action = "add_calendar_event" THEN {"calendar"}
    ELSE IF action = "get_calendar_events" THEN {"today"}
    ELSE IF action = "calculate" THEN {"calculate"}
    ELSE IF action \in {"add_homework", "get_homework"} THEN {"homework"}
    ELSE IF action = "get_timetable" THEN {"timetable"}
    ELSE IF action = "general" THEN {"none"}
    ELSE {}

C29_ChatBranchIsClassifierBranch ==
    turn.status = 200 =>
        turn.branch
            \in BranchOfIntent(parse_gemini_intent(message, turn.reply).action)

\* C30: the action, confidence and entities parse_gemini_intent returns
\* depend only on the user message: a call with the same message and any
\* other reply text returns the same action, confidence and entities, and
\* differs at most in the response field, which echoes the reply.
SameEntities(a, b) == DOMAIN a = DOMAIN b /\ \A k \in DOMAIN a : a[k] = b[k]

====
